---- MODULE Spec2Model ----
(***************************************************************************)
(* A model of egui_property_editor (src/src/lib.rs): the PropertyEditor    *)
(* builder, the conversions into Property, the row renderer with its       *)
(* running validation AND, and the two-pass layout resolver with its       *)
(* persistent store.                                                       *)
(*                                                                         *)
(* Conventions.  Option<T> is a sequence of length <= 1 (None == <<>>).    *)
(* Result<(), ValidationError> is the string "Ok" or the name of the       *)
(* error.  A &mut borrow is exclusive, so a row carries the current value  *)
(* of the variable its widget is bound to.  What the user does during one  *)
(* frame is an input of show: the path of the one widget interacted with   *)
(* and the value it is given.  Everything show does is recorded in log, in *)
(* the order the code does it.                                             *)
(***************************************************************************)
EXTENDS Integers, Sequences, FiniteSets, TLC

VARIABLES
    pc,                 \* "build": the builder is alive; "done": show has consumed it
    id,                 \* PropertyEditor.id
    show_descriptions,  \* PropertyEditor.show_descriptions
    group_all,          \* PropertyEditor.group_all
    entries,            \* PropertyEditor.entries
    log,                \* the events of conversion and drawing, in program order
    data,               \* egui's temp storage: id -> Option<PropertyEditorStore>
    out,                \* the show of this editor: what it was given, chose and
                        \* returned (Option)
    vp,                 \* a ValidatedProperty not yet converted (Option)
    app,                \* caller-owned values that live across frames
    sd_set,             \* history: the last show_descriptions(b) call, and the
                        \* number of entries it found (Option)
    shown_width,        \* history: id -> the final width of its last show (Option)
    options,            \* PropertyEditor.show_stripes, min_column_width, headline_spacing
    calls               \* history: the row-adding builder calls, in call order

vars == << pc, id, show_descriptions, group_all, entries, log, data, out,
           vp, app, sd_set, shown_width, options, calls >>

(***************************************************************************)
(* Bounds of the model.                                                    *)
(***************************************************************************)
MaxRows == 3

Values == {0, 1}
None == << >>
Some(v) == << v >>
Ids == {"e1", "e2"}

(***************************************************************************)
(* Validation rules: the closures handed to ValidatedProperty::new.        *)
(* "nonzero" is the rule of examples/demo.rs; "reject" ignores its value.  *)
(***************************************************************************)
default_validation_cb(val) == "Ok"

ValidationCb(rule, val) ==
    CASE rule = "default" -> default_validation_cb(val)
      [] rule = "nonzero" -> IF val = 0 THEN "OutOfRange" ELSE "Ok"
      [] rule = "reject"  -> "CustomWithMessage"

(***************************************************************************)
(* Property and its constructors.                                          *)
(* draw_fn is the boxed closure, given by what it captured:                *)
(*   [kind |-> "widget", val]          from_widget_fn: the bound value     *)
(*   [kind |-> "custom", out]          a caller's PropertyDrawFn           *)
(*   [kind |-> "optional", value, default, property_cb]     new_optional   *)
(*   [kind |-> "enum", value]          enum_property!                      *)
(***************************************************************************)
from_widget_fn(cb) ==
    [ name |-> None, description |-> None,
      draw_fn |-> [kind |-> "widget", val |-> cb],
      validation_result |-> "Ok" ]

from_custom_draw_fn(cb) ==
    [ name |-> None, description |-> None,
      draw_fn |-> cb,
      validation_result |-> "Ok" ]

new_optional(name, description, value, default, property_cb) ==
    [ name |-> Some(name), description |-> description,
      draw_fn |-> [kind |-> "optional", value |-> value, default |-> default,
                   property_cb |-> property_cb],
      validation_result |-> "Ok" ]

enum_property(value) ==
    from_custom_draw_fn([kind |-> "enum", value |-> value])

(* mutant: a name the property already has is kept *)
Property_name_KeepsExisting(self, name) ==
    IF self.name = << >> THEN [self EXCEPT !.name = << name >>] ELSE self

Property_name(self, name) == [self EXCEPT !.name = Some(name)]

Property_description(self, description) ==
    [self EXCEPT !.description = Some(description)]

(***************************************************************************)
(* Into<Property>.  The argument of a conversion is one of                 *)
(*   [t |-> "mut", v]                         &mut i32, &mut bool, ...     *)
(*   [t |-> "validated", value, validation_cb]    ValidatedProperty<T>     *)
(*   [t |-> "tuple2", n, v]   [t |-> "tuple3", n, v, d]                    *)
(*   [t |-> "property", p]                    a Property (From<T> for T)   *)
(* A conversion returns the Property and the events it caused: a           *)
(* validation callback that runs is recorded with the value it saw.        *)
(***************************************************************************)
ValidatedProperty_new(value, validation_cb) ==
    [ t |-> "validated", value |-> value, validation_cb |-> validation_cb ]

ValidatedProperty_unvalidated(value) ==
    [ t |-> "validated", value |-> value, validation_cb |-> "default" ]

BoundValue(arg) == IF arg.t = "mut" THEN arg.v ELSE arg

ValidateEvent(path, at, rule, value) ==
    [ ev |-> "validate", path |-> path, at |-> at, rule |-> rule,
      val |-> BoundValue(value),
      res |-> ValidationCb(rule, BoundValue(value)) ]

RECURSIVE Into(_, _)

(* mutant: the callback runs and its result is not stored *)
From_ValidatedProperty_NotStored(value, path) ==
    LET e     == ValidateEvent(path, "into", value.validation_cb, value.value)
        inner == Into(value.value, path)
    IN  [ p |-> inner.p, log |-> << e >> \o inner.log ]

From_ValidatedProperty(value, path) ==
    LET e     == ValidateEvent(path, "into", value.validation_cb, value.value)
        inner == Into(value.value, path)
    IN  [ p   |-> [inner.p EXCEPT !.validation_result = e.res],
          log |-> << e >> \o inner.log ]

(* pub struct EmptyStringIsNone<'a>(pub &'a mut Option<String>) *)
EmptyStringIsNone(slot) == [t |-> "empty_string_is_none", v |-> slot]

(* From<EmptyStringIsNone>: from_widget_fn over a closure that owns the slot *)
From_EmptyStringIsNone(value) ==
    [from_widget_fn(value.v) EXCEPT !.draw_fn.kind = "empty_string_is_none"]

Into(arg, path) ==
    CASE arg.t = "mut"       -> [p |-> from_widget_fn(arg.v), log |-> << >>]
      [] arg.t = "empty_string_is_none" ->
           [p |-> From_EmptyStringIsNone(arg), log |-> << >>]
      [] arg.t = "property"  -> [p |-> arg.p, log |-> << >>]
      [] arg.t = "validated" -> From_ValidatedProperty(arg, path)
      [] arg.t = "tuple2"    ->
           LET c == Into(arg.v, path)
           IN  [p |-> Property_name(c.p, arg.n), log |-> c.log]
      [] arg.t = "tuple3"    ->
           LET c == Into(arg.v, path)
           IN  [p |-> Property_description(Property_name(c.p, arg.n), arg.d),
                log |-> c.log]

with_widget_cb(self, path) ==
    LET e == ValidateEvent(path, "with_widget_cb", self.validation_cb, self.value)
    IN  [ p   |-> [from_widget_fn(BoundValue(self.value))
                     EXCEPT !.validation_result = e.res],
          log |-> << e >> ]

(***************************************************************************)
(* The user's part in one frame: the widget at input.path is interacted    *)
(* with.  For a value widget input.val is the value typed or dragged, for  *)
(* an enum selector it is the index of the entry clicked, for an           *)
(* optional's checkbox it is not read (a click toggles).                   *)
(***************************************************************************)
NoInput == [path |-> << >>, val |-> 0]

(***************************************************************************)
(* The value type of the optional slots: a struct of two numbers, as       *)
(* InnerThingWithDefault of examples/demo.rs.  property_cb names the       *)
(* closure: "none" returns vec![], "fields" one validated row per field,   *)
(* "demo" a plain row for a and a validated row for b.                     *)
(***************************************************************************)
CbFields(property_cb) ==
    CASE property_cb = "none"   -> << >>
      [] property_cb = "fields" -> << "a", "b" >>
      [] property_cb = "demo"   -> << "a", "b" >>

CbArg(property_cb, j, v) ==
    IF property_cb = "demo" /\ j = 1
    THEN [t |-> "tuple2", n |-> "member", v |-> [t |-> "mut", v |-> v]]
    ELSE [t |-> "tuple2", n |-> "member",
          v |-> ValidatedProperty_new([t |-> "mut", v |-> v], "nonzero")]

(* property_cb(ui, val): the rows, each converted by .into() as the closure
   builds its list, before any of them is drawn. *)
PropertyCb(property_cb, val, path) ==
    LET fs == CbFields(property_cb)
    IN  [ j \in 1..Len(fs) |-> Into(CbArg(property_cb, j, val[fs[j]]), Append(path, j)) ]

(***************************************************************************)
(* The variants an enum_property! invocation lists, in order, each with    *)
(* its default; "More" is a variant of the enum the invocation leaves out. *)
(* Something(val) exposes its payload as one validated row.                *)
(***************************************************************************)
EnumArms ==
    << [variant |-> "Nothing",   default |-> [variant |-> "Nothing", payload |-> 0]],
       [variant |-> "Something", default |-> [variant |-> "Something", payload |-> 1]] >>

EnumRows(value, path) ==
    IF value.variant = "Something"
    THEN << Into([t |-> "tuple2", n |-> "payload",
                  v |-> ValidatedProperty_new([t |-> "mut", v |-> value.payload], "nonzero")],
                 Append(path, 1)) >>
    ELSE << >>

(* mutant: a click assigns the default also when the entry is the active one *)
EnumSelect_AlwaysResets(value, k, clicked) ==
    IF clicked \in 1..Len(EnumArms) THEN EnumArms[clicked].default ELSE value

(* The selector's entries, run in order: an entry clicked while its pattern
   does not match assigns its default. *)
RECURSIVE EnumSelect(_, _, _)
EnumSelect(value, k, clicked) ==
    IF k > Len(EnumArms) THEN value
    ELSE LET checked == (value.variant = EnumArms[k].variant)
             next    == IF clicked = k /\ ~checked THEN EnumArms[k].default ELSE value
         IN  EnumSelect(next, k + 1, clicked)

(***************************************************************************)
(* Drawing.  Every draw returns [ok, log, val]: the boolean it contributes,*)
(* the events in order, and the bound value as the row leaves it.          *)
(***************************************************************************)
(* ui.label(name) or ui.label("") *)
Label(text) == IF text = None THEN "" ELSE text[1]

(* mutant: a description is drawn whether or not the column is shown *)
RowCells_DescriptionAlways(p, draw_description) ==
    << Label(p.name), "widget" >>
        \o (IF draw_description \/ p.description # None
            THEN << Label(p.description) >> ELSE << >>)

(* what a row puts into the grid before ui.end_row(): the name, the widget
   (a checkbox or selector for a composite), the description *)
RowCells(p, draw_description) ==
    << Label(p.name), "widget" >>
        \o (IF draw_description THEN << Label(p.description) >> ELSE << >>)

DrawEvent(path, p, ok, val, cells) ==
    [ ev |-> "draw", path |-> path, kind |-> p.draw_fn.kind,
      vr |-> p.validation_result, ok |-> ok, val |-> val, cells |-> cells,
      labels |-> RowCells(p, cells = 3) ]

Cells(draw_description) == IF draw_description THEN 3 ELSE 2

(* mutant: unticking the checkbox leaves the slot as it was *)
OptionalToggle_KeepsValue(value, default, cb) ==
    IF cb # (value # None)
    THEN IF cb THEN Some(default) ELSE value
    ELSE value

(* optional: the slot after the checkbox has been applied *)
OptionalToggle(value, default, cb) ==
    IF cb # (value # None)
    THEN IF cb THEN Some(default) ELSE None
    ELSE value

(* mutant: the error branch is lost *)
default_property_draw_fn_AlwaysTrue(validation_result) == TRUE

default_property_draw_fn(validation_result) == validation_result = "Ok"

RECURSIVE draw(_, _, _, _)
RECURSIVE draw_list(_, _, _, _, _, _)

(* for p in list { valid &= p.draw(ui, draw_descr) } *)
FoldNested(acc, d) ==
    [ ok |-> acc.ok /\ d.ok, log |-> acc.log \o d.log, vals |-> Append(acc.vals, d.val) ]

draw_list(ps, j, path, draw_description, input, acc) ==
    IF j > Len(ps) THEN acc
    ELSE draw_list(ps, j + 1, path, draw_description, input,
                   FoldNested(acc, draw(ps[j].p, Append(path, j), draw_description, input)))

ConvLog(ps) ==
    LET RECURSIVE cat(_)
        cat(j) == IF j > Len(ps) THEN << >> ELSE ps[j].log \o cat(j + 1)
    IN  cat(1)

DrawResult(path, self, ok, val, cells, before) ==
    [ ok |-> ok, val |-> val,
      log |-> before \o << DrawEvent(path, self, ok, val, cells) >> ]

draw_widget(self, path, draw_description, input) ==
    DrawResult(path, self, default_property_draw_fn(self.validation_result),
               IF input.path = path THEN input.val ELSE self.draw_fn.val,
               Cells(draw_description), << >>)

(* Option::get_or_insert *)
get_or_insert(slot, v) == IF slot = None THEN Some(v) ELSE slot

(* mutant: the slot keeps the text whatever it is *)
empty_is_none_KeepsText(name) == Some(name)

(* if empty { *value.0 = None }, name being the text in the slot *)
empty_is_none(name) == IF name = "" THEN None ELSE Some(name)

(* TextEdit::singleline(name): the text as the frame leaves it *)
TextEdit(name, path, input) == IF input.path = path THEN input.val ELSE name

(* the widget closure of From<EmptyStringIsNone> under default_property_draw_fn *)
draw_empty_string_is_none(self, path, draw_description, input) ==
    DrawResult(path, self, default_property_draw_fn(self.validation_result),
               empty_is_none(TextEdit(get_or_insert(self.draw_fn.val, "")[1], path, input)),
               Cells(draw_description), << >>)

draw_custom(self, path, draw_description, input) ==
    DrawResult(path, self, self.draw_fn.out, 0, Cells(draw_description), << >>)

(* the composite's own grid row: name, checkbox or selector, description *)
RowEvent(path, self, value, cells) ==
    [ ev |-> "row", path |-> path, kind |-> self.draw_fn.kind,
      vr |-> self.validation_result, val |-> value, cells |-> cells,
      labels |-> RowCells(self, cells = 3) ]

(* the slot as the nested widgets leave it: field fs[j] is bound by row j *)
WriteBack(value, fs, vals) ==
    IF value = None \/ fs = << >> THEN value
    ELSE Some([ n \in DOMAIN value[1] |->
                 IF \E j \in 1..Len(fs) : fs[j] = n
                 THEN vals[CHOOSE j \in 1..Len(fs) : fs[j] = n]
                 ELSE value[1][n] ])

(* property_cb(ui, val) is called *)
CallbackEvent(path, val) == [ev |-> "property_cb", path |-> path, val |-> val]

optional_nested(self, path, draw_description, input, value, called, ps) ==
    LET finish(inner) ==
          DrawResult(path, self, inner.ok,
                     WriteBack(value, CbFields(self.draw_fn.property_cb), inner.vals),
                     Cells(draw_description),
                     << RowEvent(path, self, value, Cells(draw_description)) >>
                       \o called \o ConvLog(ps) \o inner.log)
    IN  finish(draw_list(ps, 1, path, draw_description, input,
                         [ok |-> TRUE, log |-> << >>, vals |-> << >>]))

(* mutant: a slot that was empty when the frame began shows no rows *)
optional_after_toggle_NotWhenTicked(self, path, draw_description, input, value) ==
    IF value # None /\ self.draw_fn.value # None
    THEN optional_nested(self, path, draw_description, input, value,
                         << CallbackEvent(path, value[1]) >>,
                         PropertyCb(self.draw_fn.property_cb, value[1], path))
    ELSE optional_nested(self, path, draw_description, input, value, << >>, << >>)

(* if let Some(val) = value { for p in property_cb(ui, val) { .. } } *)
optional_after_toggle(self, path, draw_description, input, value) ==
    IF value # None
    THEN optional_nested(self, path, draw_description, input, value,
                         << CallbackEvent(path, value[1]) >>,
                         PropertyCb(self.draw_fn.property_cb, value[1], path))
    ELSE optional_nested(self, path, draw_description, input, value, << >>, << >>)

draw_optional(self, path, draw_description, input) ==
    optional_after_toggle(self, path, draw_description, input,
        OptionalToggle(self.draw_fn.value, self.draw_fn.default,
                       IF input.path = path THEN ~(self.draw_fn.value # None)
                       ELSE self.draw_fn.value # None))

enum_nested(self, path, draw_description, input, value, ps) ==
    LET finish(inner) ==
          DrawResult(path, self, inner.ok,
                     IF ps = << >> THEN value ELSE [value EXCEPT !.payload = inner.vals[1]],
                     Cells(draw_description),
                     << RowEvent(path, self, value, Cells(draw_description)) >>
                       \o ConvLog(ps) \o inner.log)
    IN  finish(draw_list(ps, 1, path, draw_description, input,
                         [ok |-> TRUE, log |-> << >>, vals |-> << >>]))

(* mutant: the rows of the variant the frame began with *)
enum_after_select_StaleRows(self, path, draw_description, input, value) ==
    enum_nested(self, path, draw_description, input, value,
                EnumRows(self.draw_fn.value, path))

(* let p_list = match value { $($name => $property_block)* _ => vec![] } *)
enum_after_select(self, path, draw_description, input, value) ==
    enum_nested(self, path, draw_description, input, value, EnumRows(value, path))

draw_enum(self, path, draw_description, input) ==
    enum_after_select(self, path, draw_description, input,
        IF input.path = path THEN EnumSelect(self.draw_fn.value, 1, input.val)
        ELSE self.draw_fn.value)

(* Property::draw: (self.draw_fn)(ui, name, description, validation_result, draw_description) *)
draw(self, path, draw_description, input) ==
    CASE self.draw_fn.kind = "widget"   -> draw_widget(self, path, draw_description, input)
      [] self.draw_fn.kind = "custom"   -> draw_custom(self, path, draw_description, input)
      [] self.draw_fn.kind = "optional" -> draw_optional(self, path, draw_description, input)
      [] self.draw_fn.kind = "enum"     -> draw_enum(self, path, draw_description, input)
      [] self.draw_fn.kind = "empty_string_is_none" ->
           draw_empty_string_is_none(self, path, draw_description, input)

(***************************************************************************)
(* inner_ui: one pass over the entries.  A Property row is drawn and then  *)
(* the run of Property rows that follows it is drawn by the inner loop;    *)
(* each contribution is folded in with &=, which does not short-circuit.   *)
(***************************************************************************)
RECURSIVE entries_loop(_, _, _, _, _)
RECURSIVE property_run(_, _, _, _, _)

(* mutant: the result of the last row replaces the running AND *)
FoldRow_LastWins(acc, d) == [ok |-> d.ok, log |-> acc.log \o d.log]

(* mutant: && in place of &=, a row after a failed one is not drawn *)
FoldRow_ShortCircuit(acc, d) ==
    IF acc.ok THEN [ok |-> d.ok, log |-> acc.log \o d.log] ELSE acc

FoldRow(acc, d) == [ok |-> acc.ok /\ d.ok, log |-> acc.log \o d.log]

entries_loop(es, i, draw_description, input, acc) ==
    IF i > Len(es) THEN acc
    ELSE IF es[i].tag = "Headline"
    THEN entries_loop(es, i + 1, draw_description, input,
                      [acc EXCEPT !.log = Append(@, [ev |-> "headline", path |-> << i >>])])
    ELSE property_run(es, i + 1, draw_description, input,
                      FoldRow(acc, draw(es[i].p, << i >>, draw_description, input)))

(* loop { match entries.next_if(is Property) { Some(p) => draw, _ => break } } *)
property_run(es, i, draw_description, input, acc) ==
    IF i <= Len(es) /\ es[i].tag = "Property"
    THEN property_run(es, i + 1, draw_description, input,
                      FoldRow(acc, draw(es[i].p, << i >>, draw_description, input)))
    ELSE entries_loop(es, i, draw_description, input, acc)

(* mutant: the running AND starts at false *)
inner_ui_StartsFalse(es, draw_description, input) ==
    entries_loop(es, 1, draw_description, input, [ok |-> FALSE, log |-> << >>])

(* grid.show(ui, |ui| { .. }): the closure is entered, and left *)
GridShow == [ev |-> "grid_show", path |-> << >>]
GridEnd == [ev |-> "grid_end", path |-> << >>]

grid_show(inner) == [inner EXCEPT !.log = Append(@, GridEnd)]

(* mutant: the grid is shown empty and the rows are drawn after it *)
inner_ui_RowsAfterGrid(es, draw_description, input) ==
    entries_loop(es, 1, draw_description, input,
                 [ok |-> TRUE, log |-> << GridShow, GridEnd >>])

inner_ui(es, draw_description, input) ==
    grid_show(entries_loop(es, 1, draw_description, input,
                           [ok |-> TRUE, log |-> << GridShow >>]))

(***************************************************************************)
(* The Grid inner_ui configures before the rows.  available_width is the   *)
(* width of the rectangle the inner Ui was given; the f32 division is      *)
(* exact for the widths the model uses (multiples of 6).                   *)
(***************************************************************************)
Columns(show_descr) == IF show_descr THEN 3 ELSE 2

f32_min(a, b) == IF a < b THEN a ELSE b

(* mutant: the configured width is handed on as it is *)
grid_min_col_width_Unclamped(min_column_width, columns, available_width, item_spacing) ==
    min_column_width

grid_min_col_width(min_column_width, columns, available_width, item_spacing) ==
    IF min_column_width = None THEN None
    ELSE Some(f32_min(min_column_width[1],
                      available_width \div columns - item_spacing * (columns - 1)))

grid_new(self, available_width, item_spacing) ==
    [ striped       |-> self.show_stripes,
      num_columns   |-> Columns(self.show_descriptions),
      min_col_width |-> grid_min_col_width(self.min_column_width,
                                           Columns(self.show_descriptions),
                                           available_width, item_spacing) ]

(***************************************************************************)
(* Rectangles, and the parts of egui's Layout that show reads.             *)
(***************************************************************************)
BorderInset == 5

Rect(min_x, max_x, min_y, max_y) ==
    [min_x |-> min_x, max_x |-> max_x, min_y |-> min_y, max_y |-> max_y]

width(r)  == r.max_x - r.min_x
height(r) == r.max_y - r.min_y

shrink(r, amnt) == Rect(r.min_x + amnt, r.max_x - amnt, r.min_y + amnt, r.max_y - amnt)
expand(r, amnt) == Rect(r.min_x - amnt, r.max_x + amnt, r.min_y - amnt, r.max_y + amnt)

from_center_size(cx, cy, w, h) ==
    Rect(cx - w \div 2, cx - w \div 2 + w, cy - h \div 2, cy - h \div 2 + h)

horizontal_align(layout) ==
    IF layout.main_dir \in {"LeftToRight", "RightToLeft"}
    THEN layout.main_align ELSE layout.cross_align

top_down(halign) == [main_dir |-> "TopDown", main_align |-> "Min", cross_align |-> halign]

(***************************************************************************)
(* The persistent store.  PropertyEditorStore derives Default: a bool      *)
(* defaults to false and an f32 to 0.                                      *)
(***************************************************************************)
PropertyEditorStore_default == [first_pass |-> FALSE, last_width |-> 0]

load(d, pid) == d[pid]

(* mutant: nothing is written *)
store_NotWritten(d, pid, st) == d

store(d, pid, st) == [d EXCEPT ![pid] = Some(st)]

(* mutant: what was loaded is dropped for the default *)
unwrap_or_default_Dropped(o) == PropertyEditorStore_default

unwrap_or_default(o) == IF o = None THEN PropertyEditorStore_default ELSE o[1]

(* mutant: every editor gets the same identifier *)
make_persistent_id_Shared(i) == "e1"

make_persistent_id(i) == i

(* the rectangle show_outer lays the rows out in *)
(* mutant: the alignment is not looked at *)
choose_ui_rect_Unaligned(st, layout, available_rect, margin_right) == available_rect

choose_ui_rect(st, layout, available_rect, margin_right) ==
    IF st.first_pass THEN available_rect
    ELSE CASE layout.cross_align = "Min" -> available_rect
           [] layout.cross_align = "Center" ->
                from_center_size((available_rect.min_x + available_rect.max_x) \div 2,
                                 (available_rect.min_y + available_rect.max_y) \div 2,
                                 st.last_width, height(available_rect))
           [] layout.cross_align = "Max" ->
                Rect(available_rect.min_x
                       + (width(available_rect) - st.last_width - margin_right),
                     available_rect.max_x - margin_right,
                     available_rect.min_y, available_rect.max_y)

(* inner_ui.min_rect(): what the rows occupied, from the top left corner of
   the rectangle they were given; the size is egui's measurement *)
min_rect(inner_rect, content) ==
    Rect(inner_rect.min_x, inner_rect.min_x + content.w,
         inner_rect.min_y, inner_rect.min_y + content.h)

(* mutant: only a growing width is noticed *)
needs_discard_OnlyGrowth(st, final_rect) ==
    st.first_pass \/ st.last_width < width(final_rect)

needs_discard(st, final_rect) == st.first_pass \/ st.last_width # width(final_rect)

(***************************************************************************)
(* show_outer, under the layout show has set up.  env is the Ui handed to  *)
(* show: its ambient layout, the available rectangle, the window margin,   *)
(* and the size the rows measure to.                                       *)
(***************************************************************************)
(* debug_assert_eq!(left, right): whether it holds *)
debug_assert_eq(left, right) == left = right

show_outer_finish(self, d, layout, env, persistent_id, st, rect, inner_rect, inner, final_rect) ==
    [ validation_result |-> inner.ok,
      log        |-> inner.log,
      grid       |-> grid_new(self, width(inner_rect), env.item_spacing),
      loaded     |-> load(d, persistent_id),
      ui_rect    |-> rect,
      inner_rect |-> inner_rect,
      final_rect |-> final_rect,
      stroke     |-> IF self.group_all THEN Some(final_rect) ELSE None,
      cursor     |-> final_rect,
      discard    |-> needs_discard(st, final_rect),
      data       |-> store(d, persistent_id,
                           [first_pass |-> FALSE, last_width |-> width(final_rect)]),
      main_dir   |-> layout.main_dir,
      cross_align |-> layout.cross_align,
      assert_top_down |-> debug_assert_eq(layout.main_dir, "TopDown") ]

(* mutant: the occupied rectangle is not expanded back *)
final_rect_of_NotExpanded(self, inner_rect, content) == min_rect(inner_rect, content)

final_rect_of(self, inner_rect, content) ==
    IF self.group_all THEN expand(min_rect(inner_rect, content), BorderInset)
    ELSE min_rect(inner_rect, content)

show_outer_rows(self, d, layout, env, input, persistent_id, st, rect, inner_rect) ==
    show_outer_finish(self, d, layout, env, persistent_id, st, rect, inner_rect,
                      inner_ui(self.entries, self.show_descriptions, input),
                      final_rect_of(self, inner_rect, env.content))

show_outer_rect(self, d, layout, env, input, persistent_id, st, rect) ==
    show_outer_rows(self, d, layout, env, input, persistent_id, st, rect,
                    IF self.group_all THEN shrink(rect, BorderInset) ELSE rect)

show_outer_loaded(self, d, layout, env, input, persistent_id, st) ==
    show_outer_rect(self, d, layout, env, input, persistent_id, st,
                    choose_ui_rect(st, layout, env.available_rect, env.margin_right))

show_outer(self, d, layout, env, input) ==
    show_outer_loaded(self, d, layout, env, input, make_persistent_id(self.id),
                      unwrap_or_default(load(d, make_persistent_id(self.id))))

(* mutant: show_outer runs under the layout show was given *)
show_UnderAmbientLayout(self, d, env, input) ==
    show_outer(self, d, env.layout, env, input)

(* show: ui.with_layout(Layout::top_down(ui.layout().horizontal_align()), ...) *)
show(self, d, env, input) ==
    show_outer(self, d, top_down(horizontal_align(env.layout)), env, input)

(***************************************************************************)
(* Text and numbers of the Duration property.  A &str is the sequence of   *)
(* its characters.  An f64 is, as far as the formatter and the parser go,  *)
(* a decimal m * 10^e kept normalised (no trailing zero in m), or an       *)
(* infinity (m its sign), or NaN.                                          *)
(***************************************************************************)
Digits == << "0", "1", "2", "3", "4", "5", "6", "7", "8", "9" >>
Upper == << "A", "B", "C", "D", "E", "F", "G", "H", "I", "J", "K", "L", "M",
            "N", "O", "P", "Q", "R", "S", "T", "U", "V", "W", "X", "Y", "Z" >>
Lower == << "a", "b", "c", "d", "e", "f", "g", "h", "i", "j", "k", "l", "m",
            "n", "o", "p", "q", "r", "s", "t", "u", "v", "w", "x", "y", "z" >>

is_ascii_digit(c) == \E d \in DOMAIN Digits : Digits[d] = c
DigitVal(c) == (CHOOSE d \in DOMAIN Digits : Digits[d] = c) - 1
is_whitespace(c) == c \in { " ", "\t" }

(* mutant: the unit is compared as typed *)
to_lowercase_AsTyped(str) == str

to_lowercase(str) ==
    [ i \in DOMAIN str |->
        IF \E u \in DOMAIN Upper : Upper[u] = str[i]
        THEN Lower[CHOOSE u \in DOMAIN Upper : Upper[u] = str[i]]
        ELSE str[i] ]

RECURSIVE trim_start(_)
trim_start(str) ==
    IF str # << >> /\ is_whitespace(Head(str)) THEN trim_start(Tail(str)) ELSE str

RECURSIVE trim_end(_)
trim_end(str) ==
    IF str # << >> /\ is_whitespace(str[Len(str)])
    THEN trim_end(SubSeq(str, 1, Len(str) - 1)) ELSE str

trim(str) == trim_end(trim_start(str))

RECURSIVE Pow10(_)
Pow10(n) == IF n = 0 THEN 1 ELSE 10 * Pow10(n - 1)

RECURSIVE Norm(_, _)
Norm(m, e) ==
    IF m = 0 THEN [k |-> "fin", m |-> 0, e |-> 0]
    ELSE IF m % 10 = 0 THEN Norm(m \div 10, e + 1)
    ELSE [k |-> "fin", m |-> m, e |-> e]

NaN == [k |-> "nan", m |-> 0, e |-> 0]
Infinity(sign) == [k |-> "inf", m |-> sign, e |-> 0]

(* x * 10^n and x * w, w a positive whole number *)
f64_scale(x, n) == IF x.k = "fin" THEN Norm(x.m, x.e + n) ELSE x
f64_times(x, w) == IF x.k = "fin" THEN Norm(x.m * w, x.e) ELSE x

f64_add(x, y) ==
    CASE x.k = "nan" \/ y.k = "nan" -> NaN
      [] x.k = "inf" /\ y.k = "inf" -> IF x.m = y.m THEN x ELSE NaN
      [] x.k = "inf" -> x
      [] y.k = "inf" -> y
      [] y.m = 0 -> x
      [] x.m = 0 -> y
      [] OTHER ->
           LET e == IF x.e < y.e THEN x.e ELSE y.e
           IN  Norm(x.m * Pow10(x.e - e) + y.m * Pow10(y.e - e), e)

(***************************************************************************)
(* str.parse::<f64>(): an optional sign, then inf, infinity or nan in any  *)
(* case, or digits with an optional point and an optional exponent; no     *)
(* whitespace anywhere.                                                    *)
(***************************************************************************)
RECURSIVE parse_decimal(_, _, _, _, _, _, _, _, _)
parse_decimal(str, i, phase, m, frac, digits, ex, exsign, exdigits) ==
    IF i > Len(str)
    THEN IF digits > 0 /\ (phase \in {"int", "frac"} \/ (phase = "exp" /\ exdigits > 0))
         THEN << Norm(m, exsign * ex - frac) >>
         ELSE << >>
    ELSE LET c == str[i]
         IN  CASE is_ascii_digit(c) /\ phase = "int" ->
                    parse_decimal(str, i + 1, phase, m * 10 + DigitVal(c), frac, digits + 1,
                                  ex, exsign, exdigits)
               [] is_ascii_digit(c) /\ phase = "frac" ->
                    parse_decimal(str, i + 1, phase, m * 10 + DigitVal(c), frac + 1,
                                  digits + 1, ex, exsign, exdigits)
               [] is_ascii_digit(c) /\ phase \in {"e", "exp"} ->
                    parse_decimal(str, i + 1, "exp", m, frac, digits, ex * 10 + DigitVal(c),
                                  exsign, exdigits + 1)
               [] c = "." /\ phase = "int" ->
                    parse_decimal(str, i + 1, "frac", m, frac, digits, ex, exsign, exdigits)
               [] c \in {"e", "E"} /\ phase \in {"int", "frac"} /\ digits > 0 ->
                    parse_decimal(str, i + 1, "e", m, frac, digits, ex, exsign, exdigits)
               [] c \in {"+", "-"} /\ phase = "e" ->
                    parse_decimal(str, i + 1, "exp", m, frac, digits, ex,
                                  IF c = "-" THEN -1 ELSE 1, exdigits)
               [] OTHER -> << >>

parse_unsigned(str, sign) ==
    CASE to_lowercase(str) \in { << "i", "n", "f" >>,
                                 << "i", "n", "f", "i", "n", "i", "t", "y" >> } ->
             << Infinity(sign) >>
      [] to_lowercase(str) = << "n", "a", "n" >> -> << NaN >>
      [] OTHER -> parse_decimal(str, 1, "int", 0, 0, 0, 0, 1, 0)

negate(r) == IF r = << >> \/ r[1].k = "nan" THEN r ELSE << [r[1] EXCEPT !.m = -@] >>

parse_f64(str) ==
    CASE str # << >> /\ Head(str) = "-" -> negate(parse_unsigned(Tail(str), 1))
      [] str # << >> /\ Head(str) = "+" -> parse_unsigned(Tail(str), 1)
      [] OTHER -> parse_unsigned(str, 1)

(***************************************************************************)
(* custom_parser of the Duration property.                                 *)
(***************************************************************************)
(* s.find(|c| (!c.is_ascii_digit() && c != 'e' && c != '-' && c != '.') || c.is_whitespace()) *)
RECURSIVE find_unit_split(_, _)
find_unit_split(str, i) ==
    IF i > Len(str) THEN << >>
    ELSE IF (~is_ascii_digit(str[i]) /\ str[i] \notin {"e", "-", "."}) \/ is_whitespace(str[i])
    THEN << i >>
    ELSE find_unit_split(str, i + 1)

Units ==
    { << "n", "s" >>, << "u", "s" >>, << "µ", "s" >>, << "m", "s" >>, << >>, << "s" >>,
      << "m" >>, << "m", "i", "n" >>, << "m", "i", "n", "u", "t", "e", "s" >>,
      << "h" >>, << "h", "o", "u", "r" >>, << "h", "o", "u", "r", "s" >>,
      << "d" >>, << "d", "a", "y" >>, << "d", "a", "y", "s" >> }

(* mutant: every unit counts as seconds *)
unit_apply_Seconds(num, unit) == num

(* match unit.as_str() { .. }, for a unit that is listed *)
unit_apply(num, unit) ==
    CASE unit = << "n", "s" >> -> f64_scale(num, -9)
      [] unit \in { << "u", "s" >>, << "µ", "s" >> } -> f64_scale(num, -6)
      [] unit = << "m", "s" >> -> f64_scale(num, -3)
      [] unit \in { << >>, << "s" >> } -> num
      [] unit \in { << "m" >>, << "m", "i", "n" >>,
                    << "m", "i", "n", "u", "t", "e", "s" >> } -> f64_times(num, 60)
      [] unit \in { << "h" >>, << "h", "o", "u", "r" >>,
                    << "h", "o", "u", "r", "s" >> } -> f64_times(num, 3600)
      [] unit \in { << "d" >>, << "d", "a", "y" >>,
                    << "d", "a", "y", "s" >> } -> f64_times(num, 86400)

parse_number_unit(str) ==
    LET pos == find_unit_split(str, 1)
    IN  IF pos = << >> THEN << >>
        ELSE LET left  == SubSeq(str, 1, pos[1] - 1)
                 right == SubSeq(str, pos[1], Len(str))
                 num   == parse_f64(trim(left))
                 unit  == to_lowercase(trim(right))
             IN  IF num # << >> /\ unit \in Units
                 THEN << unit_apply(num[1], unit) >>
                 ELSE << >>

(* s.split(":") *)
RECURSIVE split_colon(_, _)
split_colon(str, field) ==
    IF str = << >> THEN << field >>
    ELSE IF Head(str) = ":" THEN << field >> \o split_colon(Tail(str), << >>)
    ELSE split_colon(Tail(str), Append(field, Head(str)))

parse_colons(str) ==
    LET splits  == split_colon(str, << >>)
        n       == Len(splits)
        weights == << 86400, 3600, 60, 1 >>
        field(j) == parse_f64(splits[j])
        RECURSIVE sum(_)
        sum(j) == IF j > n THEN Norm(0, 0)
                  ELSE f64_add(f64_times(field(j)[1], weights[4 - n + j]), sum(j + 1))
    IN  IF n \notin {2, 3, 4} \/ \E j \in 1..n : field(j) = << >> THEN << >>
        ELSE << sum(1) >>

custom_parser(str) ==
    IF parse_f64(str) # << >> THEN parse_f64(str)
    ELSE IF parse_number_unit(str) # << >> THEN parse_number_unit(str)
    ELSE parse_colons(str)

(* Duration::from_secs_f64, for a finite value that is not negative: whole
   seconds and the nanoseconds of the rest, what is below a nanosecond cut *)
from_secs_f64(x) ==
    IF x.e >= 0 THEN [secs |-> x.m * Pow10(x.e), nanos |-> 0]
    ELSE IF x.e >= -9
    THEN [ secs  |-> x.m \div Pow10(-x.e),
           nanos |-> (x.m % Pow10(-x.e)) * Pow10(9 + x.e) ]
    ELSE [ secs  |-> 0, nanos |-> x.m \div Pow10(-x.e - 9) ]

(* the decimal digits of a whole number, and its first eight *)
RECURSIVE NumDigits(_)
NumDigits(n) == IF n < 10 THEN 1 ELSE 1 + NumDigits(n \div 10)

Lead8(n) ==
    IF NumDigits(n) <= 8 THEN n * Pow10(8 - NumDigits(n))
    ELSE n \div Pow10(NumDigits(n) - 8)

(* x < y for finite values that are not negative, to eight digits *)
f64_lt(x, y) ==
    CASE x.m = 0 -> y.m # 0
      [] y.m = 0 -> FALSE
      [] OTHER ->
           \/ NumDigits(x.m) + x.e < NumDigits(y.m) + y.e
           \/ /\ NumDigits(x.m) + x.e = NumDigits(y.m) + y.e
              /\ Lead8(x.m) < Lead8(y.m)

(* f64::MAX, about 1.7976931e308 *)
f64_MAX == [k |-> "fin", m |-> 17976931, e |-> 301]

(* Duration::MAX in seconds, u64::MAX and a little: about 1.8446744e19 *)
Duration_MAX == [k |-> "fin", m |-> 18446744, e |-> 12]

(***************************************************************************)
(* .range(0.0..=f64::MAX): what DragValue makes of a parsed value.  A      *)
(* value below the range becomes 0, one above it f64::MAX, one inside it   *)
(* stays; where a NaN goes is egui's choice.                               *)
(***************************************************************************)
clamp_to_range(x) ==
    CASE x.k = "nan" -> { Norm(0, 0), f64_MAX, NaN }
      [] x.k = "inf" -> IF x.m < 0 THEN { Norm(0, 0) } ELSE { f64_MAX }
      [] x.m < 0 -> { Norm(0, 0) }
      [] f64_lt(f64_MAX, x) -> { f64_MAX }
      [] OTHER -> { x }

(* Duration::from_secs_f64 panics on a value that is negative, not finite,
   or too large for a Duration *)
from_secs_f64_panics(x) ==
    \/ x.k # "fin"
    \/ x.m < 0
    \/ ~f64_lt(x, Duration_MAX)

(* *value = Duration::from_secs_f64(secs) *)
write_back(value, secs) ==
    IF from_secs_f64_panics(secs)
    THEN [panic |-> TRUE, value |-> value]
    ELSE [panic |-> FALSE, value |-> from_secs_f64(secs)]

(* Duration::as_secs_f64, for a Duration of whole seconds *)
as_secs_f64(value) == Norm(value.secs, 0)

(***************************************************************************)
(* custom_formatter of the Duration property.  A Duration is whole seconds *)
(* and nanoseconds below one second; val is value.as_secs_f64().  {:.p}    *)
(* rounds to the nearest; the durations of the model have no ties.         *)
(***************************************************************************)
RECURSIVE to_string(_)
to_string(n) ==
    IF n < 10 THEN << Digits[n + 1] >>
    ELSE Append(to_string(n \div 10), Digits[(n % 10) + 1])

RECURSIVE pad_left(_, _)
pad_left(str, w) == IF Len(str) >= w THEN str ELSE pad_left(<< "0" >> \o str, w)

(* format!("{:.prec$}", x) for x = scaled / 10^prec *)
format_fixed(scaled, prec) ==
    to_string(scaled \div Pow10(prec)) \o << "." >>
        \o pad_left(to_string(scaled % Pow10(prec)), prec)

round_to(n, unit) == (n + unit \div 2) \div unit

custom_formatter(value, decimals) ==
    LET secs  == value.secs
        nanos == value.nanos
    IN  IF secs < 60 THEN
            CASE secs = 0 /\ nanos = 0 ->
                   format_fixed(0, decimals) \o << " ", "s" >>
              [] secs = 0 /\ nanos # 0 /\ nanos < 1000 ->
                   format_fixed(nanos * Pow10(decimals), decimals) \o << " ", "n", "s" >>
              [] secs = 0 /\ nanos >= 1000 /\ nanos < 1000000 ->
                   format_fixed(round_to(nanos * Pow10(decimals), 1000), decimals)
                       \o << " ", "µ", "s" >>
              [] secs = 0 /\ nanos >= 1000000 ->
                   format_fixed(round_to(nanos, 1000000 \div Pow10(decimals)), decimals)
                       \o << " ", "m", "s" >>
              [] OTHER ->
                   format_fixed(secs * Pow10(decimals)
                                  + round_to(nanos, 1000000000 \div Pow10(decimals)),
                                decimals) \o << " ", "s" >>
        ELSE IF secs < 3600 THEN
            pad_left(to_string(secs \div 60), 2) \o << ":" >>
                \o format_fixed((secs % 60) * 100 + round_to(nanos, 10000000), 2)
        ELSE IF secs < 86400 THEN
            pad_left(to_string(secs \div 3600), 2) \o << ":" >>
                \o pad_left(to_string((secs % 3600) \div 60), 2) \o << ":" >>
                \o pad_left(to_string(secs % 60), 2)
        ELSE
            pad_left(to_string(secs \div 86400), 2) \o << ":" >>
                \o pad_left(to_string((secs % 86400) \div 3600), 2) \o << ":" >>
                \o pad_left(to_string((secs % 3600) \div 60), 2) \o << ":" >>
                \o pad_left(to_string(secs % 60), 2)

(***************************************************************************)
(* The inputs the builder calls and show are tried with.                   *)
(***************************************************************************)
Mut(v) == [t |-> "mut", v |-> v]
AsArg(p) == [t |-> "property", p |-> p]
Tuple2(n, v) == [t |-> "tuple2", n |-> n, v |-> v]
Tuple3(n, v, d) == [t |-> "tuple3", n |-> n, v |-> v, d |-> d]
Inner(a, b) == [a |-> a, b |-> b]

MutArgs == { Mut(v) : v \in Values }

ValidatedArgs ==
    { ValidatedProperty_new(Mut(0), "nonzero"), ValidatedProperty_unvalidated(Mut(1)) }

CustomArgs == { AsArg(from_custom_draw_fn([kind |-> "custom", out |-> FALSE])) }

EnumValues == { [variant |-> "Nothing", payload |-> 0],
                [variant |-> "Something", payload |-> 0],
                [variant |-> "Something", payload |-> 1],
                [variant |-> "More", payload |-> 0] }

EnumArgs == { AsArg(enum_property([variant |-> "Something", payload |-> 0])) }

OptionalSlots == { None, Some(Inner(1, 0)) }
OptionalDefaults == { Inner(1, 1), Inner(0, 1) }

(* single arguments the specifications below give to the builder methods *)
MutValues == { Mut(v) : v \in Values }
OneRow == Mut(1)
ZeroRow == Mut(0)
FailingRow == ValidatedProperty_new(Mut(0), "nonzero")
TextRow == EmptyStringIsNone(Some("a"))
OccupiedSlot == Some(Inner(1, 0))
DefaultInner == Inner(1, 1)

(* ValidatedProperty over something that is a Property already *)
WrappedArgs ==
    { ValidatedProperty_new(a, "reject") :
        a \in { AsArg(from_custom_draw_fn([kind |-> "custom", out |-> TRUE])),
                AsArg(new_optional("n", None, None, Inner(1, 1), "fields")) } }

BareArgs == MutArgs \cup ValidatedArgs \cup CustomArgs \cup EnumArgs \cup WrappedArgs

PropertyArgs == BareArgs \cup { Tuple3("n", Mut(1), "d") }

NamedArgs == { ValidatedProperty_new(Mut(1), "nonzero") }

Paths == { << i >> : i \in 1..MaxRows } \cup { << i, j >> : i \in 1..MaxRows, j \in 1..2 }

(* interactions that can happen with the rows of es: a row that is there,
   or a nested row that was there when the frame began *)
HasNested(es, path) ==
    /\ es[path[1]].tag = "Property"
    /\ LET f == es[path[1]].p.draw_fn
       IN  \/ f.kind = "optional" /\ f.value # None /\ path[2] <= Len(CbFields(f.property_cb))
           \/ f.kind = "enum" /\ path[2] <= Len(EnumRows(f.value, << path[1] >>))

InputVals(es, path) ==
    IF Len(path) = 2 THEN Values
    ELSE CASE es[path[1]].p.draw_fn.kind = "widget"   -> Values
           [] es[path[1]].p.draw_fn.kind = "enum"     -> 1..Len(EnumArms)
           [] OTHER                                   -> {0}

Inputs(es) ==
    { NoInput } \cup
    UNION { { [path |-> q, val |-> v] : v \in InputVals(es, q) } :
            q \in { r \in Paths : /\ r[1] <= Len(es)
                                  /\ es[r[1]].tag = "Property"
                                  /\ Len(r) = 2 => HasNested(es, r) } }

Aligns == {"Min", "Center", "Max"}

(* the ambient layouts: a vertical one aligned across, a horizontal one
   aligned along *)
Layouts ==
    { [main_dir |-> "TopDown", main_align |-> "Min", cross_align |-> c] : c \in Aligns }
    \cup
    { [main_dir |-> "LeftToRight", main_align |-> a, cross_align |-> "Min"] : a \in Aligns }

Widths == {0, 20, 40}

DefaultEnv ==
    [ layout |-> [main_dir |-> "TopDown", main_align |-> "Min", cross_align |-> "Min"],
      available_rect |-> Rect(0, 200, 0, 100),
      margin_right |-> 6,
      item_spacing |-> 8,
      content |-> [w |-> 40, h |-> 20] ]

(***************************************************************************)
(* The state after PropertyEditor::new(id_source).                         *)
(***************************************************************************)
(* the option fields as PropertyEditor::new sets them *)
options_new ==
    [ show_stripes |-> FALSE, min_column_width |-> None, headline_spacing |-> 5 ]

Self ==
    [ id |-> id, show_descriptions |-> show_descriptions, group_all |-> group_all,
      show_stripes |-> options.show_stripes,
      min_column_width |-> options.min_column_width,
      entries |-> entries ]

InitEditor ==
    /\ pc = "build"
    /\ id = "e1"
    /\ show_descriptions = FALSE
    /\ group_all = FALSE
    /\ entries = << >>
    /\ log = << >>
    /\ data = [i \in Ids |-> None]
    /\ out = None
    /\ vp = None
    /\ sd_set = None
    /\ shown_width = [i \in Ids |-> None]
    /\ options = options_new
    /\ calls = << >>

Init == InitEditor /\ app = None

(* PropertyEditor::new(id_source), once the last editor has been shown *)
new(id_source) ==
    /\ pc = "done"
    /\ pc' = "build"
    /\ id' = id_source
    /\ show_descriptions' = FALSE
    /\ group_all' = FALSE
    /\ entries' = << >>
    /\ log' = << >>
    /\ sd_set' = None
    /\ out' = None
    /\ options' = options_new
    /\ calls' = << >>
    /\ UNCHANGED << data, vp, app, shown_width >>

CanAdd == pc = "build" /\ Len(entries) < MaxRows

(* history: the call that has just pushed the last entry *)
Called(call, args) ==
    calls' = Append(calls, [call |-> call, args |-> args, row |-> entries'[Len(entries')]])

(***************************************************************************)
(* The builder.                                                            *)
(***************************************************************************)
headline(text) ==
    /\ CanAdd
    /\ entries' = Append(entries, [tag |-> "Headline", text |-> text])
    /\ Called("headline", << text >>)
    /\ UNCHANGED << pc, id, show_descriptions, group_all, log, data, out, vp, app,
                    sd_set, shown_width, options >>

(* mutant: adding a described row does not raise the flag *)
push_property_KeepsFlag(c) ==
    /\ show_descriptions' = show_descriptions
    /\ entries' = Append(entries, [tag |-> "Property", p |-> c.p])
    /\ log' = log \o c.log
    /\ UNCHANGED << pc, id, group_all, data, out, app, sd_set, shown_width, options >>

(* the body of PropertyEditor::property, given the converted Property *)
push_property(c) ==
    /\ show_descriptions' = (show_descriptions \/ c.p.description # None)
    /\ entries' = Append(entries, [tag |-> "Property", p |-> c.p])
    /\ log' = log \o c.log
    /\ UNCHANGED << pc, id, group_all, data, out, app, sd_set, shown_width, options >>

property(arg) ==
    /\ CanAdd
    /\ push_property(Into(arg, << Len(entries) + 1 >>))
    /\ Called("property", << arg >>)
    /\ UNCHANGED vp

named_with(c, name) == [c EXCEPT !.p = Property_name(c.p, name)]

named_property(name, arg) ==
    /\ CanAdd
    /\ push_property(named_with(Into(arg, << Len(entries) + 1 >>), name))
    /\ Called("named_property", << name, arg >>)
    /\ UNCHANGED vp

optional_property(name, value, default, property_cb) ==
    /\ CanAdd
    /\ push_property([p |-> new_optional(name, None, value, default, property_cb),
                      log |-> << >>])
    /\ Called("optional_property", << name, value, default, property_cb >>)
    /\ UNCHANGED vp

optional_property_default(name, value, property_cb) ==
    /\ CanAdd
    /\ push_property([p |-> new_optional(name, None, value, Inner(0, 0), property_cb),
                      log |-> << >>])
    /\ Called("optional_property_default", << name, value, property_cb >>)
    /\ UNCHANGED vp

set_show_descriptions(b) ==
    /\ pc = "build"
    /\ show_descriptions' = b
    /\ sd_set' = Some([b |-> b, n |-> Len(entries)])
    /\ UNCHANGED << pc, id, group_all, entries, log, data, out, vp, app, shown_width,
                    options, calls >>

stripes(show_stripes) ==
    /\ pc = "build"
    /\ options' = [options EXCEPT !.show_stripes = show_stripes]
    /\ UNCHANGED << pc, id, show_descriptions, group_all, entries, log, data, out, vp,
                    app, sd_set, shown_width, calls >>

headline_spacing(spacing) ==
    /\ pc = "build"
    /\ options' = [options EXCEPT !.headline_spacing = spacing]
    /\ UNCHANGED << pc, id, show_descriptions, group_all, entries, log, data, out, vp,
                    app, sd_set, shown_width, calls >>

min_col_width(w) ==
    /\ pc = "build"
    /\ options' = [options EXCEPT !.min_column_width = w]
    /\ UNCHANGED << pc, id, show_descriptions, group_all, entries, log, data, out, vp,
                    app, sd_set, shown_width, calls >>

(* mutant: the setter starts the row list afresh *)
outer_border_DropsRows(b) ==
    /\ pc = "build"
    /\ group_all' = b
    /\ entries' = << >>
    /\ UNCHANGED << pc, id, show_descriptions, log, data, out, vp, app, sd_set,
                    shown_width, options, calls >>

outer_border(b) ==
    /\ pc = "build"
    /\ group_all' = b
    /\ UNCHANGED << pc, id, show_descriptions, entries, log, data, out, vp, app, sd_set, shown_width,
                    options, calls >>

(***************************************************************************)
(* show(self, ui): consumes the editor.  out keeps, beside what show       *)
(* computed, the editor and the Ui it was called with.                     *)
(***************************************************************************)
Shown(r, env, input) ==
    /\ log' = log \o r.log
    /\ data' = r.data
    /\ out' = Some([ validation_result |-> r.validation_result,
                     discard    |-> r.discard,
                     grid       |-> r.grid,
                     loaded     |-> r.loaded,
                     ui_rect    |-> r.ui_rect,
                     inner_rect |-> r.inner_rect,
                     final_rect |-> r.final_rect,
                     stroke     |-> r.stroke,
                     cursor     |-> r.cursor,
                     main_dir   |-> r.main_dir,
                     cross_align |-> r.cross_align,
                     assert_top_down |-> r.assert_top_down,
                     prev_width |-> shown_width[id],
                     self       |-> Self,
                     env        |-> env,
                     input      |-> input ])
    /\ shown_width' = [shown_width EXCEPT ![id] = Some(width(r.final_rect))]

ShowBody(env, input) ==
    /\ pc = "build"
    /\ Shown(show(Self, data, env, input), env, input)
    /\ pc' = "done"
    /\ entries' = << >>
    /\ UNCHANGED << id, show_descriptions, group_all, vp, sd_set, options, calls >>

Show(env, input) == ShowBody(env, input) /\ UNCHANGED app

(***************************************************************************)
(* Spec: one editor, rows of every kind, one show.                         *)
(***************************************************************************)
Next ==
    \/ \E value \in OptionalSlots, default \in OptionalDefaults :
          optional_property("n", value, default, "fields")
    \/ optional_property_default("n", None, "demo")
    \/ headline("h")
    \/ \E arg \in PropertyArgs : property(arg)
    \/ \E arg \in NamedArgs : named_property("n", arg)
    \/ \E input \in Inputs(entries) : Show(DefaultEnv, input)

Spec == Init /\ [][Next]_vars

(***************************************************************************)
(* SpecValidated: the life of a ValidatedProperty.  The caller builds one  *)
(* with new or unvalidated and then converts it with .into() (property),   *)
(* converts it with with_widget_cb, or lets it go out of scope.            *)
(***************************************************************************)
Rules == {"nonzero", "reject"}

let_validated(value, validation_cb) ==
    /\ pc = "build"
    /\ vp = None
    /\ vp' = Some(ValidatedProperty_new(value, validation_cb))
    /\ UNCHANGED << pc, id, show_descriptions, group_all, entries, log, data, out,
                    app, sd_set, shown_width, options, calls >>

let_unvalidated(value) ==
    /\ pc = "build"
    /\ vp = None
    /\ vp' = Some(ValidatedProperty_unvalidated(value))
    /\ UNCHANGED << pc, id, show_descriptions, group_all, entries, log, data, out,
                    app, sd_set, shown_width, options, calls >>

property_validated ==
    /\ CanAdd
    /\ vp # None
    /\ push_property(Into(vp[1], << Len(entries) + 1 >>))
    /\ Called("property", << vp[1] >>)
    /\ vp' = None

property_with_widget_cb ==
    /\ CanAdd
    /\ vp # None
    /\ push_property(with_widget_cb(vp[1], << Len(entries) + 1 >>))
    /\ Called("property", << vp[1] >>)
    /\ vp' = None

drop_validated ==
    /\ vp # None
    /\ vp' = None
    /\ UNCHANGED << pc, id, show_descriptions, group_all, entries, log, data, out,
                    app, sd_set, shown_width, options, calls >>

NextValidated ==
    \/ \E value \in MutValues, rule \in Rules : let_validated(value, rule)
    \/ \E value \in MutValues : let_unvalidated(value)
    \/ property_validated
    \/ property_with_widget_cb
    \/ drop_validated
    \/ headline("h")
    \/ \E input \in Inputs(entries) : Show(DefaultEnv, input)

SpecValidated == Init /\ [][NextValidated]_vars

(***************************************************************************)
(* SpecLayout: frame after frame an editor is built and shown under the    *)
(* Ui of that frame.  Rows measure to a positive width.                    *)
(***************************************************************************)
Envs ==
    { [ layout |-> l, available_rect |-> Rect(0, 200, 0, 100), margin_right |-> 6,
        item_spacing |-> 8, content |-> [w |-> w, h |-> 20] ] :
      l \in Layouts, w \in Widths }

Measures(es, env) == es # << >> => env.content.w > 0

NextLayout ==
    \/ \E i \in Ids : new(i)
    \/ \E b \in BOOLEAN : outer_border(b)
    \/ property(OneRow)
    \/ property(FailingRow)
    \/ \E env \in Envs : Measures(entries, env) /\ Show(env, NoInput)

SpecLayout == Init /\ [][NextLayout]_vars

(***************************************************************************)
(* SpecOptional: the caller owns an Option<T> and shows it every frame     *)
(* with optional_property.  app keeps the slot, and as history the slot    *)
(* as the frame found it, whether the checkbox was clicked, and whether an *)
(* edited payload has been cleared before.                                 *)
(***************************************************************************)
AllSlots == { None } \cup { Some(Inner(a, b)) : a \in Values, b \in Values }

InitOptional ==
    /\ InitEditor
    /\ app \in { [ slot |-> s, default |-> d, property_cb |-> cb,
                    prev |-> s, clicked |-> FALSE, lost |-> FALSE ] :
                  s \in OptionalSlots, d \in OptionalDefaults,
                  cb \in {"fields", "none"} }

(* the value a top-level row has left in the variable it is bound to *)
ValueAfter(lg, path) ==
    lg[CHOOSE k \in DOMAIN lg : lg[k].ev = "draw" /\ lg[k].path = path].val

optional_property_app ==
    /\ entries = << >>
    /\ optional_property("n", app.slot, app.default, app.property_cb)

show_optional(env, input) ==
    /\ Len(entries) = 1
    /\ ShowBody(env, input)
    /\ app' = [app EXCEPT
                 !.slot    = ValueAfter(log', << 1 >>),
                 !.prev    = app.slot,
                 !.clicked = (input.path = << 1 >>),
                 !.lost    = \/ app.lost
                             \/ /\ app.slot # None
                                /\ app.slot # Some(app.default)
                                /\ ValueAfter(log', << 1 >>) = None ]

NextOptional ==
    \/ new("e1")
    \/ optional_property_app
    \/ \E b \in BOOLEAN : set_show_descriptions(b)
    \/ \E input \in Inputs(entries) : show_optional(DefaultEnv, input)

SpecOptional == InitOptional /\ [][NextOptional]_vars

(***************************************************************************)
(* SpecEnum: the caller owns an enum value and shows it every frame with   *)
(* enum_property!.  app keeps the value, and as history the value as the   *)
(* frame found it and the selector entry clicked (0: none).                *)
(***************************************************************************)
InitEnum ==
    /\ InitEditor
    /\ app \in { [value |-> e, prev |-> e, clicked |-> 0] : e \in EnumValues }

enum_property_app ==
    /\ entries = << >>
    /\ property(AsArg(enum_property(app.value)))

show_enum(env, input) ==
    /\ Len(entries) = 1
    /\ ShowBody(env, input)
    /\ app' = [app EXCEPT
                 !.value   = ValueAfter(log', << 1 >>),
                 !.prev    = app.value,
                 !.clicked = IF input.path = << 1 >> THEN input.val ELSE 0 ]

NextEnum ==
    \/ new("e1")
    \/ enum_property_app
    \/ \E b \in BOOLEAN : set_show_descriptions(b)
    \/ \E input \in Inputs(entries) : show_enum(DefaultEnv, input)

SpecEnum == InitEnum /\ [][NextEnum]_vars

(***************************************************************************)
(* SpecText: the caller owns an Option<String> and shows it every frame    *)
(* through EmptyStringIsNone.  app keeps the slot, and as history the slot *)
(* as the frame found it and the text the TextEdit held when the frame     *)
(* ended.                                                                  *)
(***************************************************************************)
Texts == { "", "a", "ab" }
TextSlots == { None } \cup { Some(t) : t \in Texts }

NoText == [path |-> << >>, val |-> ""]
TextInputs == { NoText } \cup { [path |-> << 1 >>, val |-> t] : t \in Texts }

InitText ==
    /\ InitEditor
    /\ app \in { [slot |-> s, prev |-> s, text |-> None] : s \in TextSlots }

text_property_app ==
    /\ entries = << >>
    /\ named_property("n", EmptyStringIsNone(app.slot))

show_text(env, input) ==
    /\ Len(entries) = 1
    /\ ShowBody(env, input)
    /\ app' = [app EXCEPT
                 !.slot = ValueAfter(log', << 1 >>),
                 !.prev = app.slot,
                 !.text = Some(TextEdit(get_or_insert(app.slot, "")[1], << 1 >>, input)) ]

NextText ==
    \/ new("e1")
    \/ text_property_app
    \/ \E b \in BOOLEAN : set_show_descriptions(b)
    \/ \E input \in TextInputs : show_text(DefaultEnv, input)

SpecText == InitText /\ [][NextText]_vars

(***************************************************************************)
(* SpecBuilder: the builder's setters between the rows.                    *)
(***************************************************************************)
BuilderArgs == { Mut(1), Tuple2("n", Mut(1)), Tuple3("n", Mut(1), "d") }

NextBuilder ==
    \/ headline("h")
    \/ \E arg \in BuilderArgs : property(arg)
    \/ \E arg \in BuilderArgs : named_property("n", arg)
    \/ \E b \in BOOLEAN : set_show_descriptions(b)
    \/ \E b \in BOOLEAN : outer_border(b)
    \/ Show(DefaultEnv, NoInput)

SpecBuilder == Init /\ [][NextBuilder]_vars

(***************************************************************************)
(* SpecOrder: every row-adding call and every option setter, in any order. *)
(***************************************************************************)
OrderArgs == { ValidatedProperty_new(Mut(0), "nonzero") }

NextOrder ==
    \/ headline("h")
    \/ \E arg \in OrderArgs : property(arg)
    \/ named_property("n", ZeroRow)
    \/ optional_property("n", OccupiedSlot, DefaultInner, "fields")
    \/ optional_property_default("n", None, "demo")
    \/ \E b \in BOOLEAN : stripes(b)
    \/ \E b \in BOOLEAN : outer_border(b)
    \/ \E sp \in {5, 8} : headline_spacing(sp)
    \/ \E w \in {None, Some(30)} : min_col_width(w)
    \/ \E b \in BOOLEAN : set_show_descriptions(b)
    \/ Show(DefaultEnv, NoInput)

SpecOrder == Init /\ [][NextOrder]_vars

(***************************************************************************)
(* SpecNames: naming a property, by named_property and by the tuples, also *)
(* when it has a name already or carries the Err of a ValidatedProperty.   *)
(***************************************************************************)
NamelessArgs ==
    { Mut(1), ValidatedProperty_new(Mut(0), "nonzero") }

NamedOnceArgs ==
    { Tuple2("m", v) : v \in NamelessArgs } \cup
    { Tuple3("m", ValidatedProperty_new(Mut(0), "nonzero"), "d"),
      AsArg(new_optional("m", Some("d"), None, Inner(1, 1), "none")) }

NameArgs == NamelessArgs \cup NamedOnceArgs
Tuple2Args == { Tuple2("n", arg) : arg \in NamedOnceArgs }
Tuple3Args == { Tuple3("n", arg, "e") : arg \in NamedOnceArgs }

NextNames ==
    \/ \E arg \in NameArgs : property(arg)
    \/ \E arg \in Tuple2Args : property(arg)
    \/ \E arg \in Tuple3Args : property(arg)
    \/ \E arg \in NameArgs : named_property("n", arg)
    \/ Show(DefaultEnv, NoInput)

SpecNames == Init /\ [][NextNames]_vars

(***************************************************************************)
(* SpecGrid: a minimum column width, two or three columns, and Uis of      *)
(* several widths (a narrow side panel, a panel, a window).                *)
(***************************************************************************)
GridWidths == {12, 120, 240}

GridEnvs ==
    { [DefaultEnv EXCEPT !.available_rect = Rect(0, w, 0, 100)] : w \in GridWidths }

MinColWidths == { None, Some(30), Some(150) }

GridArgs == { Mut(1), Tuple3("n", Mut(1), "d") }

NextGrid ==
    \/ \E arg \in GridArgs : property(arg)
    \/ \E w \in MinColWidths : min_col_width(w)
    \/ \E b \in BOOLEAN : set_show_descriptions(b)
    \/ \E env \in GridEnvs : Show(env, NoInput)

SpecGrid == Init /\ [][NextGrid]_vars

(***************************************************************************)
(* SpecSteady: editors that are the same on every frame.  app keeps, for   *)
(* the run, the ambient layout, whether the editors have the outer border, *)
(* and the width the rows of each editor measure to.                       *)
(***************************************************************************)
SteadyWidths == {20, 40}

InitSteady ==
    /\ InitEditor
    /\ app \in { [layout |-> l, border |-> b, w |-> w] :
                  l \in Layouts, b \in BOOLEAN, w \in [Ids -> SteadyWidths] }

SteadyEnv ==
    [DefaultEnv EXCEPT !.layout = app.layout, !.content = [w |-> app.w[id], h |-> 20]]

show_steady ==
    /\ entries # << >>
    /\ group_all = app.border
    /\ Show(SteadyEnv, NoInput)

NextSteady ==
    \/ \E i \in Ids : new(i)
    \/ outer_border(app.border)
    \/ property(OneRow)
    \/ show_steady

SpecSteady == InitSteady /\ [][NextSteady]_vars

(***************************************************************************)
(* SpecAmbient: show is handed a Ui of any layout: every main direction,   *)
(* every alignment along and across it.                                    *)
(***************************************************************************)
Directions == {"LeftToRight", "RightToLeft", "TopDown", "BottomUp"}

AmbientLayouts ==
    { [main_dir |-> dir, main_align |-> a, cross_align |-> c] :
        dir \in Directions, a \in Aligns, c \in Aligns }

AmbientEnvs == { [DefaultEnv EXCEPT !.layout = l] : l \in AmbientLayouts }

NextAmbient ==
    \/ new("e1")
    \/ \E b \in BOOLEAN : outer_border(b)
    \/ property(OneRow)
    \/ \E env \in AmbientEnvs : Show(env, NoInput)

SpecAmbient == Init /\ [][NextAmbient]_vars

(***************************************************************************)
(* SpecCells: rows of the kinds that draw their own grid row, with and     *)
(* without a name and a description, and show_descriptions set either way  *)
(* before or after them.                                                   *)
(***************************************************************************)
CellArgs ==
    { Mut(1),
      Tuple3("n", Mut(1), "d"),
      AsArg(new_optional("n", Some("d"), Some(Inner(1, 0)), Inner(1, 1), "fields")),
      Tuple3("n", AsArg(enum_property([variant |-> "Something", payload |-> 0])), "d") }

NextCells ==
    \/ \E arg \in CellArgs : property(arg)
    \/ property(TextRow)
    \/ optional_property("n", None, DefaultInner, "fields")
    \/ \E b \in BOOLEAN : set_show_descriptions(b)
    \/ Show(DefaultEnv, NoInput)

SpecCells == Init /\ [][NextCells]_vars

(***************************************************************************)
(* SpecDuration: a Duration is formatted by custom_formatter as DragValue  *)
(* shows it, and the text is given to custom_parser.  The durations cover  *)
(* every tier of the formatter, with and without a part below one second.  *)
(***************************************************************************)
MaxDecimals == 3

DurationSecs == { 0, 1, 59, 60, 90, 3599, 3600, 3661, 86400, 90061 }
DurationNanos == { 0, 7, 1500, 2600000, 500000000, 250400000 }

Durations == { [secs |-> sec, nanos |-> n] : sec \in DurationSecs, n \in DurationNanos }

InitDuration ==
    /\ InitEditor
    /\ app \in { [value |-> d, text |-> None, parsed |-> None] : d \in Durations }

format_value ==
    /\ app.text = None
    /\ app' = [app EXCEPT !.text = Some(custom_formatter(app.value, MaxDecimals))]
    /\ UNCHANGED << pc, id, show_descriptions, group_all, entries, log, data, out, vp,
                    sd_set, shown_width, options, calls >>

parse_text ==
    /\ app.text # None
    /\ app.parsed = None
    /\ app' = [app EXCEPT !.parsed = Some(custom_parser(app.text[1]))]
    /\ UNCHANGED << pc, id, show_descriptions, group_all, entries, log, data, out, vp,
                    sd_set, shown_width, options, calls >>

NextDuration == format_value \/ parse_text

SpecDuration == InitDuration /\ [][NextDuration]_vars

(***************************************************************************)
(* SpecParser: a text is typed into the DragValue of a Duration property   *)
(* and given to custom_parser.  A typed text is a number with whitespace   *)
(* and a unit around it, a colon list, a word that f64 parses, or          *)
(* something else; what it is made of is kept beside the text.             *)
(***************************************************************************)
(* strict: made only of digits, '.', '-' and 'e' *)
NumberTexts ==
    { [txt |-> << "1", "0" >>, val |-> Norm(10, 0), strict |-> TRUE],
      [txt |-> << "1", ".", "5" >>, val |-> Norm(15, -1), strict |-> TRUE],
      [txt |-> << "1", "0", "0", "0", "0" >>, val |-> Norm(10000, 0), strict |-> TRUE],
      [txt |-> << "2", "e", "3" >>, val |-> Norm(2000, 0), strict |-> TRUE],
      [txt |-> << "2", "E", "3" >>, val |-> Norm(2000, 0), strict |-> FALSE],
      [txt |-> << "+", "5" >>, val |-> Norm(5, 0), strict |-> FALSE] }

(* a unit as typed, its weight w * 10^sc in seconds *)
UnitTexts ==
    { [txt |-> << >>, w |-> 1, sc |-> 0],
      [txt |-> << "s" >>, w |-> 1, sc |-> 0],
      [txt |-> << "S" >>, w |-> 1, sc |-> 0],
      [txt |-> << "n", "s" >>, w |-> 1, sc |-> -9],
      [txt |-> << "u", "s" >>, w |-> 1, sc |-> -6],
      [txt |-> << "µ", "s" >>, w |-> 1, sc |-> -6],
      [txt |-> << "m", "s" >>, w |-> 1, sc |-> -3],
      [txt |-> << "M", "s" >>, w |-> 1, sc |-> -3],
      [txt |-> << "m" >>, w |-> 60, sc |-> 0],
      [txt |-> << "m", "i", "n" >>, w |-> 60, sc |-> 0],
      [txt |-> << "M", "I", "N" >>, w |-> 60, sc |-> 0],
      [txt |-> << "m", "i", "n", "u", "t", "e", "s" >>, w |-> 60, sc |-> 0],
      [txt |-> << "h" >>, w |-> 3600, sc |-> 0],
      [txt |-> << "H" >>, w |-> 3600, sc |-> 0],
      [txt |-> << "h", "o", "u", "r" >>, w |-> 3600, sc |-> 0],
      [txt |-> << "h", "o", "u", "r", "s" >>, w |-> 3600, sc |-> 0],
      [txt |-> << "d" >>, w |-> 86400, sc |-> 0],
      [txt |-> << "d", "a", "y" >>, w |-> 86400, sc |-> 0],
      [txt |-> << "D", "a", "y", "s" >>, w |-> 86400, sc |-> 0] }

Whitespace == { << >>, << " " >> }

NumberUnitTexts ==
    { [ form   |-> "unit",
        txt    |-> lead \o num.txt \o mid \o unit.txt \o trail,
        val    |-> Norm(num.val.m * unit.w, num.val.e + unit.sc),
        strict |-> num.strict,
        lead   |-> lead # << >>,
        bare   |-> lead = << >> /\ mid = << >> /\ unit.txt = << >> /\ trail = << >> ] :
      lead \in Whitespace, num \in NumberTexts, mid \in Whitespace,
      unit \in UnitTexts, trail \in Whitespace }

Typed(form, txt, val) ==
    [form |-> form, txt |-> txt, val |-> val, strict |-> TRUE, lead |-> FALSE, bare |-> FALSE]

ColonTexts ==
    { Typed("colon", << "1", ":", "3", "0" >>, Norm(90, 0)),
      Typed("colon", << "0", "1", ":", "3", "0", ".", "5", "0" >>, Norm(905, -1)),
      Typed("colon", << "1", ":", "0", "0", ":", "0", "0" >>, Norm(3600, 0)),
      Typed("colon", << "0", "1", ":", "0", "1", ":", "0", "1" >>, Norm(3661, 0)),
      Typed("colon", << "1", ":", "1", ":", "1", ":", "1" >>, Norm(90061, 0)),
      Typed("colon", << "0", ":", "+", "5" >>, Norm(5, 0)) }

(* str.parse::<f64>() takes these words *)
WordTexts ==
    { Typed("word", << "i", "n", "f" >>, Infinity(1)),
      Typed("word", << "-", "i", "n", "f" >>, Infinity(-1)),
      Typed("word", << "I", "n", "f", "i", "n", "i", "t", "y" >>, Infinity(1)),
      Typed("word", << "n", "a", "n" >>, NaN),
      Typed("word", << "N", "a", "N" >>, NaN) }

OtherTexts ==
    { Typed("other", << "a", "b", "c" >>, NaN),
      Typed("other", << >>, NaN),
      Typed("other", << " " >>, NaN),
      Typed("other", << "s" >>, NaN),
      Typed("other", << "1", "0", "x" >>, NaN),
      Typed("other", << "1", "0", " ", "s", "e", "c" >>, NaN),
      Typed("other", << "1", ":" >>, NaN),
      Typed("other", << "1", ":", "3", "0", "s" >>, NaN),
      Typed("other", << "1", ":", "2", ":", "3", ":", "4", ":", "5" >>, NaN),
      Typed("other", << "i", "n", "f", " ", "s" >>, NaN) }

TypedTexts == NumberUnitTexts \cup ColonTexts \cup WordTexts \cup OtherTexts

InitParser ==
    /\ InitEditor
    /\ app = [typed |-> None, text |-> None, parsed |-> None]

type_text(t) ==
    /\ app.text = None
    /\ app' = [typed |-> Some(t), text |-> Some(t.txt), parsed |-> None]
    /\ UNCHANGED << pc, id, show_descriptions, group_all, entries, log, data, out, vp,
                    sd_set, shown_width, options, calls >>

NextParser ==
    \/ \E t \in TypedTexts : type_text(t)
    \/ parse_text

SpecParser == InitParser /\ [][NextParser]_vars

(***************************************************************************)
(* SpecWriteBack: one frame of a Duration property in which a text is      *)
(* typed: the text is parsed, the value is clamped to the range, and       *)
(* the closure writes it back into the bound Duration.                     *)
(***************************************************************************)
LargeTexts ==
    { << "1", "e", "3", "0" >>,
      << "2", "e", "1", "9" >>,
      << "1", "e", "3", "0", "8" >>,
      << "i", "n", "f" >>,
      << "n", "a", "n" >>,
      << "1", "e", "3", "0", " ", "d" >>,
      << "1", "e", "3", "0", ":", "0" >>,
      << "-", "5" >>,
      << "-", "1", "e", "3", "0" >>,
      << "-", "i", "n", "f" >>,
      << "2", "e", "9" >> }

WriteBackTexts == { t.txt : t \in TypedTexts } \cup LargeTexts

InitWriteBack ==
    /\ InitEditor
    /\ app = [ value |-> [secs |-> 1, nanos |-> 0], text |-> None, parsed |-> None,
               secs |-> None, written |-> None ]

type_duration(txt) ==
    /\ app.text = None
    /\ app' = [app EXCEPT !.text = Some(txt)]
    /\ UNCHANGED << pc, id, show_descriptions, group_all, entries, log, data, out, vp,
                    sd_set, shown_width, options, calls >>

(* a text that does not parse leaves secs as it was read from the value *)
clamp_parsed ==
    /\ app.parsed # None
    /\ app.secs = None
    /\ \E secs \in IF app.parsed[1] = None THEN { as_secs_f64(app.value) }
                   ELSE clamp_to_range(app.parsed[1][1]) :
          app' = [app EXCEPT !.secs = Some(secs)]
    /\ UNCHANGED << pc, id, show_descriptions, group_all, entries, log, data, out, vp,
                    sd_set, shown_width, options, calls >>

write_back_value ==
    /\ app.secs # None
    /\ app.written = None
    /\ app' = [app EXCEPT !.written = Some(write_back(app.value, app.secs[1]))]
    /\ UNCHANGED << pc, id, show_descriptions, group_all, entries, log, data, out, vp,
                    sd_set, shown_width, options, calls >>

NextWriteBack ==
    \/ \E txt \in WriteBackTexts : type_duration(txt)
    \/ parse_text
    \/ clamp_parsed
    \/ write_back_value

SpecWriteBack == InitWriteBack /\ [][NextWriteBack]_vars

(***************************************************************************)
(* Reading the log of the last show.                                       *)
(***************************************************************************)
Events(ev) == { k \in DOMAIN log : log[k].ev = ev }

TopDraws == { k \in Events("draw") : Len(log[k].path) = 1 }

(* the draws of the rows nested under the row drawn at log[k] *)
NestedDraws(k) ==
    { n \in Events("draw") : Len(log[n].path) = 2 /\ log[n].path[1] = log[k].path[1] }

PropertyRows(es) == { i \in DOMAIN es : es[i].tag = "Property" }

(* the rows of es are drawn once each, in the order they were added *)
DrawnInOrder(es) ==
    /\ { log[k].path[1] : k \in TopDraws } = PropertyRows(es)
    /\ \A k1, k2 \in TopDraws :
          /\ log[k1].path = log[k2].path => k1 = k2
          /\ k1 < k2 => log[k1].path[1] < log[k2].path[1]

Done == pc = "done" /\ out # None

(***************************************************************************)
(* C1 as stated: show returns the AND of the precomputed validation        *)
(* results of the Property rows added to the editor.                       *)
(***************************************************************************)
C1_AndOfPrecomputed ==
    Done => out[1].validation_result = (\A k \in TopDraws : log[k].vr = "Ok")

(* what a top-level row contributes, read off what was drawn *)
RowContribution(k) ==
    CASE log[k].kind = "widget" -> log[k].vr = "Ok"
      [] log[k].kind \in {"optional", "enum"} -> \A n \in NestedDraws(k) : log[n].vr = "Ok"
      [] log[k].kind = "custom" -> log[k].ok

(***************************************************************************)
(* C1, amended: show returns the AND, over the Property rows in insertion  *)
(* order and wherever the headlines fall, of what each row's draw          *)
(* contributes: for a row drawn by the default draw function whether its   *)
(* precomputed validation result is Ok; for an optional or enum row the    *)
(* AND of the results of the nested rows it shows in this pass, whatever   *)
(* its own stored result; for a custom draw function what it returns.      *)
(***************************************************************************)
C1_AndOfContributions ==
    Done => /\ DrawnInOrder(out[1].self.entries)
            /\ out[1].validation_result = (\A k \in TopDraws : RowContribution(k))

(* two rows with a headline between them, the second one an optional row
   whose own result is Ok and whose nested row fails *)
C1_Witness ==
    /\ Done
    /\ Len(out[1].self.entries) = 3
    /\ out[1].self.entries[2].tag = "Headline"
    /\ \E k \in TopDraws :
          /\ log[k].path = << 3 >>
          /\ log[k].kind = "optional"
          /\ log[k].vr = "Ok"
          /\ ~RowContribution(k)
    /\ \E k \in TopDraws : log[k].path = << 1 >> /\ log[k].kind = "widget" /\ log[k].vr = "Ok"
    /\ ~out[1].validation_result

Drawing == Events("draw") \cup Events("row") \cup Events("headline")

EvaluatedOnce(k) ==
    \A k2 \in Events("validate") : log[k2].path = log[k].path => k2 = k

RuleResult(k, val) == ValidationCb(log[k].rule, val) = "Ok"

(***************************************************************************)
(* C3 as stated: the rule of a ValidatedProperty is evaluated exactly      *)
(* once, at conversion and before any row is drawn, and the row reports    *)
(* the rule's result for the value as it was at conversion.                *)
(***************************************************************************)
C3_BeforeAnyRow ==
    \A k \in Events("validate") :
        /\ EvaluatedOnce(k)
        /\ \A j \in Drawing : k < j
        /\ \A d \in Events("draw") :
              log[d].path = log[k].path => (log[d].ok <=> RuleResult(k, log[k].val))

(***************************************************************************)
(* C3, amended: the rule of a ValidatedProperty is evaluated exactly once, *)
(* when it is converted into a Property and before that row is drawn, and  *)
(* draw never re-evaluates it.  A row added to the editor is converted by  *)
(* the builder call, before show draws anything; a row that an optional's  *)
(* or an enum's callback returns is converted during show, after the       *)
(* parent's toggle or selector row has been drawn.  A row drawn by the     *)
(* default draw function reports the rule's result for the value as it was *)
(* at conversion, also when its widget changes the value in that show.     *)
(***************************************************************************)
C3_OnceAtConversion ==
    \A k \in Events("validate") :
        /\ EvaluatedOnce(k)
        /\ log[k].at = "into"
        /\ \A d \in Events("draw") : log[d].path = log[k].path => k < d
        /\ Len(log[k].path) = 1 => \A j \in Drawing : k < j
        /\ Len(log[k].path) = 2 =>
              \E j \in Events("row") : j < k /\ log[j].path = << log[k].path[1] >>
        /\ \A d \in Events("draw") :
              (log[d].path = log[k].path /\ log[d].kind = "widget")
                 => (log[d].ok <=> RuleResult(k, log[k].val))

(* a validated row whose widget changed the value in the show that drew it,
   so that the rule would now give the other answer; and a validated row
   converted inside an optional's callback *)
C3_Witness ==
    /\ Done
    /\ \E k \in Events("validate"), d \in Events("draw") :
          /\ Len(log[k].path) = 1
          /\ log[d].path = log[k].path
          /\ log[d].kind = "widget"
          /\ log[d].val # log[k].val
          /\ RuleResult(k, log[d].val) # log[d].ok
    /\ \E k \in Events("validate") : Len(log[k].path) = 2

(***************************************************************************)
(* C4 as stated: ValidatedProperty::new calls the validation callback      *)
(* inside new itself: while a ValidatedProperty exists that has not been   *)
(* converted, its rule has already been evaluated on its value.            *)
(***************************************************************************)
C4_CalledInsideNew ==
    vp # None =>
        \E k \in Events("validate") :
            /\ log[k].at = "new"
            /\ log[k].rule = vp[1].validation_cb
            /\ log[k].val = BoundValue(vp[1].value)

(***************************************************************************)
(* C5 as stated: the first show of an editor whose identifier has no       *)
(* stored layout state raises the re-layout signal, whatever width the     *)
(* rows occupy.                                                            *)
(***************************************************************************)
C5_FirstShowDiscards ==
    (Done /\ out[1].loaded = None) => out[1].discard

(***************************************************************************)
(* C6: on every show after the first for the same identifier the re-layout *)
(* signal is raised iff the width of this pass's final rectangle differs   *)
(* from the width of the previous pass, which is the last_width that pass  *)
(* stored and this pass loads.                                             *)
(***************************************************************************)
C6_DiscardIffWidthChanged ==
    (Done /\ out[1].prev_width # None) =>
        /\ out[1].loaded # None
        /\ out[1].loaded[1].last_width = out[1].prev_width[1]
        /\ out[1].discard <=> (width(out[1].final_rect) # out[1].prev_width[1])

(* a later pass of a bordered, centred editor that came out narrower than
   the pass before it and raised the signal *)
C6_Witness ==
    /\ Done
    /\ out[1].prev_width # None
    /\ out[1].self.group_all
    /\ out[1].env.layout.cross_align = "Center"
    /\ 0 < width(out[1].final_rect)
    /\ width(out[1].final_rect) < out[1].prev_width[1]
    /\ out[1].discard
    /\ data[out[1].self.id][1].last_width = width(out[1].final_rect)

(***************************************************************************)
(* C7 as stated: a first show with no stored state lays its rows out in    *)
(* the maximal available rectangle whatever the alignment, never in a      *)
(* rectangle of width 0.                                                   *)
(***************************************************************************)
C7_FirstShowMaximalRect ==
    (Done /\ out[1].loaded = None) =>
        /\ out[1].ui_rect = out[1].env.available_rect
        /\ width(out[1].ui_rect) # 0

(***************************************************************************)
(* C8: the optional property's body, frame by frame.  A click that ticks   *)
(* the checkbox of an empty slot leaves exactly the default in it; a click *)
(* that unticks it leaves the slot empty; without a click the slot is      *)
(* neither assigned nor cleared, and only a nested row that was edited     *)
(* changes its field.  What was edited is lost with the clearing: the next *)
(* tick gives the default again.                                           *)
(***************************************************************************)
C8_ToggleAssignsOrClears ==
    Done =>
        /\ (app.clicked /\ app.prev = None) => app.slot = Some(app.default)
        /\ (app.clicked /\ app.prev # None) => app.slot = None
        /\ ~app.clicked => ((app.slot = None) <=> (app.prev = None))
        /\ out[1].input = NoInput => app.slot = app.prev
        /\ (Len(out[1].input.path) = 2) =>
              app.slot = Some([app.prev[1] EXCEPT
                                 ![CbFields(app.property_cb)[out[1].input.path[2]]]
                                     = out[1].input.val])

(* the slot was edited, cleared, and has now been ticked again *)
C8_Witness ==
    /\ Done
    /\ app.lost
    /\ app.clicked
    /\ app.prev = None
    /\ app.slot = Some(app.default)

(***************************************************************************)
(* C9: the enum selector, frame by frame.  A click on the entry of a       *)
(* variant that is not the active one assigns that entry's default,        *)
(* whatever the value carried before; a click on the entry of the active   *)
(* variant leaves the value as it is.                                      *)
(***************************************************************************)
C9_SelectorAssignsDefault ==
    (Done /\ app.clicked \in 1..Len(EnumArms)) =>
        IF app.prev.variant # EnumArms[app.clicked].variant
        THEN app.value = EnumArms[app.clicked].default
        ELSE app.value = app.prev

(* from a variant with another payload to Something: its default payload *)
C9_Witness ==
    /\ Done
    /\ app.clicked = 2
    /\ app.prev.variant = "More"
    /\ app.prev.payload # EnumArms[2].default.payload
    /\ app.value = EnumArms[2].default

(***************************************************************************)
(* C10 as stated: when show is called, show_descriptions is true iff at    *)
(* least one Property row that was added carries a description.            *)
(***************************************************************************)
Described(es, from) ==
    \E i \in PropertyRows(es) : i > from /\ es[i].p.description # None

C10_IffAnyDescription ==
    Done => (out[1].self.show_descriptions <=> Described(out[1].self.entries, 0))

(***************************************************************************)
(* C10, amended: when show is called, show_descriptions is true iff the    *)
(* last call of the show_descriptions setter passed true or a Property row *)
(* with a description was added after it; without a call of the setter,    *)
(* iff some Property row that was added carries a description.             *)
(***************************************************************************)
C10_SetterThenRows ==
    Done => (out[1].self.show_descriptions <=>
               IF sd_set = None THEN Described(out[1].self.entries, 0)
               ELSE sd_set[1].b \/ Described(out[1].self.entries, sd_set[1].n))

(* a described row, and after it show_descriptions(false): the flag is off
   at show though the row is there *)
C10_Witness ==
    /\ Done
    /\ sd_set # None
    /\ ~sd_set[1].b
    /\ Described(out[1].self.entries, 0)
    /\ ~Described(out[1].self.entries, sd_set[1].n)
    /\ ~out[1].self.show_descriptions
    /\ \E k \in Events("draw") : log[k].cells = 2

(***************************************************************************)
(* C11.  The rows the builder calls have pushed, and the top-level rows    *)
(* show has drawn, in the order it drew them.                              *)
(***************************************************************************)
RowsCalled == [ i \in 1..Len(calls) |-> calls[i].row ]

IsTopRow(e) == e.ev = "headline" \/ (e.ev = "draw" /\ Len(e.path) = 1)

RowsDrawn == SelectSeq(log, IsTopRow)

(* the k-th row drawn is the row the k-th call added *)
DrawnIsCalled(k) ==
    /\ RowsDrawn[k].path = << k >>
    /\ (RowsDrawn[k].ev = "headline") <=> (calls[k].call = "headline")
    /\ RowsDrawn[k].ev = "draw" =>
          /\ calls[k].row.tag = "Property"
          /\ RowsDrawn[k].kind = calls[k].row.p.draw_fn.kind
          /\ RowsDrawn[k].vr = calls[k].row.p.validation_result
          /\ calls[k].call \in {"optional_property", "optional_property_default"}
                => RowsDrawn[k].kind = "optional"

(***************************************************************************)
(* C11: for any chain of builder calls the rows of the editor are exactly  *)
(* the rows added by headline, property, named_property, optional_property *)
(* and optional_property_default, one per call and in call order, whatever *)
(* option setters were called in between; and show draws exactly these     *)
(* rows, in that order.                                                    *)
(***************************************************************************)
C11_RowsInCallOrder ==
    /\ pc = "build" => entries = RowsCalled
    /\ Done => /\ out[1].self.entries = RowsCalled
               /\ Len(RowsDrawn) = Len(calls)
               /\ \A k \in 1..Len(calls) : DrawnIsCalled(k)

(* three rows of three kinds are shown, every setter having been called *)
C11_Witness ==
    /\ Done
    /\ Len(calls) = 3
    /\ calls[1].call = "headline"
    /\ calls[2].call = "optional_property"
    /\ calls[3].call = "named_property"
    /\ options.show_stripes
    /\ options.min_column_width # None
    /\ options.headline_spacing # 5
    /\ group_all
    /\ sd_set # None
    /\ \A k \in 1..3 : DrawnIsCalled(k)

(***************************************************************************)
(* C12.  The property v converts to, and what naming may change of it.     *)
(***************************************************************************)
Converted(v, k) == Into(v, << k >>).p

SameDrawAndResult(p, q) ==
    /\ p.draw_fn = q.draw_fn
    /\ p.validation_result = q.validation_result

(***************************************************************************)
(* C12: named_property(name, v) adds the row property(v.into().name(name)) *)
(* adds; the tuple (n, v) converts to v.into().name(n) and (n, v, d) to    *)
(* v.into().name(n).description(d).  The name given replaces the name v    *)
(* had, and the draw operation and the precomputed validation result of v  *)
(* come through unchanged.                                                 *)
(***************************************************************************)
C12_NamingKeepsTheRest ==
    \A k \in DOMAIN calls :
        LET row == calls[k].row
            args == calls[k].args
        IN  /\ calls[k].call = "named_property" =>
                 /\ row.p = Converted(AsArg(Property_name(Converted(args[2], k), args[1])), k)
                 /\ row.p.name = Some(args[1])
                 /\ row.p.description = Converted(args[2], k).description
                 /\ SameDrawAndResult(row.p, Converted(args[2], k))
            /\ (calls[k].call = "property" /\ args[1].t = "tuple2") =>
                 /\ row.p.name = Some(args[1].n)
                 /\ row.p.description = Converted(args[1].v, k).description
                 /\ SameDrawAndResult(row.p, Converted(args[1].v, k))
            /\ (calls[k].call = "property" /\ args[1].t = "tuple3") =>
                 /\ row.p.name = Some(args[1].n)
                 /\ row.p.description = Some(args[1].d)
                 /\ SameDrawAndResult(row.p, Converted(args[1].v, k))

(* a named ValidatedProperty with an Err is given another name by
   named_property and another one by a tuple, and is drawn failing *)
C12_Witness ==
    /\ Done
    /\ \E k \in DOMAIN calls :
          /\ calls[k].call = "named_property"
          /\ Converted(calls[k].args[2], k).name = Some("m")
          /\ calls[k].row.p.name = Some("n")
          /\ calls[k].row.p.validation_result = "OutOfRange"
    /\ \E k \in DOMAIN calls :
          /\ calls[k].call = "property"
          /\ calls[k].args[1].t = "tuple3"
          /\ Converted(calls[k].args[1].v, k).description = Some("d")
          /\ calls[k].row.p.description = Some("e")
          /\ calls[k].row.p.validation_result = "OutOfRange"
    /\ ~out[1].validation_result

(***************************************************************************)
(* C13: an editor whose rows contain no Property row (no rows at all, or   *)
(* headlines only) returns true from show.                                 *)
(***************************************************************************)
C13_NoPropertyRowsIsTrue ==
    (Done /\ PropertyRows(out[1].self.entries) = {}) => out[1].validation_result

(* two headlines and nothing else have been shown *)
C13_Witness ==
    /\ Done
    /\ Len(out[1].self.entries) = 2
    /\ PropertyRows(out[1].self.entries) = {}
    /\ Cardinality(Events("headline")) = 2
    /\ Events("draw") = {}
    /\ out[1].validation_result

(***************************************************************************)
(* C14.  What the last show configured: the width available to the grid,   *)
(* its columns, the spacing between them, the configured minimum column    *)
(* width and the one handed to the grid.                                   *)
(***************************************************************************)
Avail == width(out[1].inner_rect)
Cols == out[1].grid.num_columns
Spacing == out[1].env.item_spacing
Configured == out[1].self.min_column_width
Given == out[1].grid.min_col_width

WiderThanShare == Configured # None /\ Configured[1] * Cols > Avail

(***************************************************************************)
(* C14 as stated: a minimum column width configured wider than             *)
(* available_width / columns is clamped so that the columns and the        *)
(* spacing between them fit the available width exactly, and the clamped   *)
(* width is never negative.                                                *)
(***************************************************************************)
C14_ClampFitsExactly ==
    (Done /\ WiderThanShare) =>
        /\ Cols * Given[1] + (Cols - 1) * Spacing = Avail
        /\ Given[1] >= 0

(***************************************************************************)
(* C14, amended: the width given to the grid is the smaller of the         *)
(* configured width and available_width / columns - (columns - 1) *        *)
(* item_spacing.  When the configured width is wider than available_width  *)
(* / columns, the columns and the spacing between them take available      *)
(* width - (columns - 1)^2 * item_spacing: they never exceed the available *)
(* width and fall short of it by that much.  The clamped width is negative *)
(* when available_width < columns * (columns - 1) * item_spacing.          *)
(***************************************************************************)
C14_ClampLeavesSlack ==
    Done =>
        /\ (Configured = None) <=> (Given = None)
        /\ Configured # None =>
              Given[1] = f32_min(Configured[1], Avail \div Cols - (Cols - 1) * Spacing)
        /\ WiderThanShare =>
              /\ Cols * Given[1] + (Cols - 1) * Spacing
                    = Avail - (Cols - 1) * (Cols - 1) * Spacing
              /\ Cols * Given[1] + (Cols - 1) * Spacing <= Avail
              /\ (Given[1] < 0) <=> (Avail < Cols * (Cols - 1) * Spacing)

(* three columns in a window of 240: 150 is clamped to 64, and the grid
   takes 208 *)
C14_Witness ==
    /\ Done
    /\ WiderThanShare
    /\ Cols = 3
    /\ Avail = 240
    /\ Given = Some(64)
    /\ Cols * Given[1] + (Cols - 1) * Spacing = 208

(***************************************************************************)
(* C15.  The formatter's text has been parsed, and the parser gave a       *)
(* value; the Duration that value stands for.                              *)
(***************************************************************************)
Parsed == app.parsed # None
ParsedValue == app.parsed[1][1]

(* a Duration with its nanoseconds rounded to a multiple of unit *)
RoundedTo(value, unit) ==
    IF round_to(value.nanos, unit) * unit = 1000000000
    THEN [secs |-> value.secs + 1, nanos |-> 0]
    ELSE [secs |-> value.secs, nanos |-> round_to(value.nanos, unit) * unit]

(* what the text shows of a Duration *)
Displayed(value) ==
    CASE value.secs = 0 /\ value.nanos < 1000000 -> value
      [] value.secs = 0 /\ value.nanos >= 1000000 -> RoundedTo(value, 1000)
      [] value.secs >= 1 /\ value.secs < 60 -> RoundedTo(value, 1000000)
      [] value.secs >= 60 /\ value.secs < 3600 -> RoundedTo(value, 10000000)
      [] OTHER -> [secs |-> value.secs, nanos |-> 0]

(***************************************************************************)
(* C15 as stated: for a duration of any tier, also one with a part below   *)
(* one second in the minute, hour and day tiers, the parser gives back     *)
(* the duration from the formatter's text (to the nanosecond).             *)
(***************************************************************************)
C15_RoundTrip ==
    Parsed => /\ app.parsed[1] # None
              /\ ParsedValue.k = "fin"
              /\ from_secs_f64(ParsedValue) = app.value

(***************************************************************************)
(* C15, amended: the parser accepts the formatter's text for a duration of *)
(* every tier, and gives back the duration as far as the text shows it:    *)
(* rounded to three decimals of the unit shown below one minute (ns, µs,   *)
(* ms, s), rounded to hundredths of a second in the minute tier, and cut   *)
(* to whole seconds in the hour and day tiers, where the part below one    *)
(* second is lost.                                                         *)
(***************************************************************************)
C15_RoundTripAsDisplayed ==
    Parsed => /\ app.parsed[1] # None
              /\ ParsedValue.k = "fin"
              /\ from_secs_f64(ParsedValue) = Displayed(app.value)

(* an hour, a minute, a second and a half come back without the half *)
C15_Witness ==
    /\ Parsed
    /\ app.value = [secs |-> 3661, nanos |-> 500000000]
    /\ app.text = Some(<< "0", "1", ":", "0", "1", ":", "0", "1" >>)
    /\ from_secs_f64(ParsedValue) = [secs |-> 3661, nanos |-> 0]

(***************************************************************************)
(* C16.  The typed text and what the parser gave for it.                   *)
(***************************************************************************)
TypedText == app.typed[1]
ParserResult == app.parsed[1]

(***************************************************************************)
(* C16 as stated: a number, with or without a unit in any letter case and  *)
(* with whitespace before, between or after them, parses to the number     *)
(* times the unit's weight; a colon list of 2, 3 or 4 fields to the        *)
(* weighted sum; every other text fails.                                   *)
(***************************************************************************)
C16_ParserAgreesWithGrammar ==
    Parsed =>
        CASE TypedText.form \in {"unit", "colon"} -> ParserResult = Some(TypedText.val)
          [] TypedText.form = "other" -> ParserResult = None
          [] OTHER -> TRUE

(***************************************************************************)
(* C16, amended: a text that f64 parses whole is that many seconds, which  *)
(* takes in a leading '+', an exponent with 'e' or 'E', and the words inf, *)
(* infinity and nan in any case.  Otherwise a number made of digits, '.',  *)
(* '-' and lower-case 'e', followed by whitespace and a unit in any        *)
(* letter case and whitespace after it, is the number times the unit's     *)
(* weight; whitespace before the number, or a number with '+' or 'E'       *)
(* before a unit or whitespace, makes the text fail.  A colon list of 2,   *)
(* 3 or 4 fields that f64 parses is the weighted sum.  Every other text    *)
(* fails.                                                                  *)
(***************************************************************************)
C16_ParserAgreesWithCode ==
    Parsed =>
        CASE TypedText.form = "unit" /\ TypedText.bare -> ParserResult = Some(TypedText.val)
          [] TypedText.form = "unit" /\ ~TypedText.bare ->
               ParserResult = IF TypedText.lead \/ ~TypedText.strict
                              THEN None ELSE Some(TypedText.val)
          [] TypedText.form \in {"colon", "word"} -> ParserResult = Some(TypedText.val)
          [] OTHER -> ParserResult = None

(* "10000 Ms" is ten seconds *)
C16_Witness ==
    /\ Parsed
    /\ app.text = Some(<< "1", "0", "0", "0", "0", " ", "M", "s" >>)
    /\ ParserResult = Some(Norm(10, 0))

(***************************************************************************)
(* C17.  For an EmptyStringIsNone property, after every draw the bound     *)
(* Option<String> is not Some of the empty string: it is None when the     *)
(* text the TextEdit held is empty, also for a slot that was None and got  *)
(* no text, and Some of the text when it is not empty.                     *)
(***************************************************************************)
C17_EmptyIsNone ==
    Done /\ app.text # None =>
        /\ app.slot # Some("")
        /\ app.text = Some("") => app.slot = None
        /\ app.text # Some("") => app.slot = app.text
        /\ app.prev = None /\ out[1].input = NoText => app.slot = None

(* a slot holding "ab" whose text was deleted in the frame is None *)
C17_Witness ==
    /\ Done
    /\ app.prev = Some("ab")
    /\ out[1].input = [path |-> << 1 >>, val |-> ""]
    /\ app.slot = None

(***************************************************************************)
(* C18.  The events a row's draw leaves in the log: the composite's own    *)
(* row, the draws of its nested rows, and last its own draw event, written *)
(* when the draw returns.                                                  *)
(***************************************************************************)
EventsOfRow(i) ==
    { n \in Events("row") \cup Events("draw") : log[n].path[1] = i }

(* the draw of row log[k] is over before the draw of the next row starts *)
RunsToCompletion(k) ==
    \A n \in EventsOfRow(log[k].path[1]) :
        /\ n <= k
        /\ \A k2 \in TopDraws : k2 < k => k2 < n

(***************************************************************************)
(* C18: during one show every Property row's draw is invoked exactly once, *)
(* in insertion order, each running to completion before the next starts;  *)
(* a row that contributed false does not stop later rows from being drawn, *)
(* and after show no row is left in the editor.                            *)
(***************************************************************************)
C18_EveryRowDrawnOnce ==
    Done =>
        /\ DrawnInOrder(out[1].self.entries)
        /\ \A k \in TopDraws : RunsToCompletion(k)
        /\ \A i \in PropertyRows(out[1].self.entries) :
              (\E k \in TopDraws : log[k].path[1] < i /\ ~log[k].ok)
                 => \E k \in TopDraws : log[k].path = << i >>
        /\ entries = << >>

(* a failed row, then an optional row drawn with its nested rows, then a
   third row *)
C18_Witness ==
    /\ Done
    /\ \E k1, k2, k3 \in TopDraws :
          /\ k1 < k2 /\ k2 < k3
          /\ ~log[k1].ok
          /\ NestedDraws(k2) # {}
          /\ \A n \in NestedDraws(k2) : k1 < n /\ n < k2

(***************************************************************************)
(* C19.  A show that found stored state, the alignment around the editor,  *)
(* and the rectangle it was given.                                         *)
(***************************************************************************)
LaterPass == Done /\ out[1].loaded # None /\ ~out[1].loaded[1].first_pass
AmbientAlign == horizontal_align(out[1].env.layout)
LastWidth == out[1].loaded[1].last_width
Maximal == out[1].env.available_rect
Chosen == out[1].ui_rect

(***************************************************************************)
(* C19: on a pass that is not the first, a start-aligned editor is given   *)
(* the maximal rectangle unchanged; a centred one a rectangle of width     *)
(* last_width, centred horizontally in the maximal rectangle, of the same  *)
(* height; an end-aligned one a rectangle of width last_width whose        *)
(* trailing edge is the maximal rectangle's, inset by the right margin.    *)
(***************************************************************************)
C19_RectByAlignment ==
    LaterPass =>
        CASE AmbientAlign = "Min" -> Chosen = Maximal
          [] AmbientAlign = "Center" ->
               /\ width(Chosen) = LastWidth
               /\ Chosen.min_x - Maximal.min_x = Maximal.max_x - Chosen.max_x
               /\ Chosen.min_y = Maximal.min_y
               /\ Chosen.max_y = Maximal.max_y
          [] AmbientAlign = "Max" ->
               /\ width(Chosen) = LastWidth
               /\ Chosen.max_x = Maximal.max_x - out[1].env.margin_right
               /\ Chosen.min_y = Maximal.min_y
               /\ Chosen.max_y = Maximal.max_y

(* end-aligned along a horizontal layout, 40 wide the frame before *)
C19_Witness ==
    /\ LaterPass
    /\ out[1].env.layout.main_dir = "LeftToRight"
    /\ AmbientAlign = "Max"
    /\ LastWidth = 40
    /\ Chosen = Rect(154, 194, 0, 100)

(***************************************************************************)
(* C20.  What is stored under the editor's identifier once show is over.   *)
(***************************************************************************)
Stored == data[id]

(***************************************************************************)
(* C20: after every show, whatever was stored before and whether or not    *)
(* the discard was requested, the state stored under the editor's          *)
(* identifier is first_pass = false and last_width = the width of the      *)
(* final rectangle of that show, the state of other identifiers is as it   *)
(* was, and show returns the AND the rows were drawn to.                   *)
(***************************************************************************)
C20_StoredAfterShow ==
    Done =>
        /\ Stored = Some([first_pass |-> FALSE, last_width |-> width(out[1].final_rect)])
        /\ \A i \in Ids \ {id} : shown_width[i] = None => data[i] = None
        /\ \A i \in Ids \ {id} :
              shown_width[i] # None =>
                 data[i] = Some([first_pass |-> FALSE, last_width |-> shown_width[i][1]])
        /\ out[1].validation_result = (\A k \in TopDraws : log[k].ok)

(* a later show of another width, with a failing row: the discard is
   requested, the new width is stored and show returns false *)
C20_Witness ==
    /\ Done
    /\ out[1].loaded # None
    /\ out[1].discard
    /\ ~out[1].validation_result
    /\ Stored[1].last_width # out[1].loaded[1].last_width
    /\ Stored[1].last_width = width(out[1].final_rect)

(***************************************************************************)
(* C21.  One frame of an optional property: the slot once the checkbox has *)
(* been applied, the calls of the callback, and the row's own events.      *)
(***************************************************************************)
SlotAfterToggle ==
    IF app.clicked
    THEN IF app.prev = None THEN Some(app.default) ELSE None
    ELSE app.prev

CallbackCalls == Events("property_cb")
ToggleRow == CHOOSE k \in Events("row") : log[k].path = << 1 >>
OptionalDraw == CHOOSE k \in TopDraws : log[k].path = << 1 >>

(***************************************************************************)
(* C21: when an optional property is drawn, the callback is called once,   *)
(* with the value in the slot (the default in the frame the checkbox was   *)
(* ticked), if the slot holds a value after the checkbox has been applied, *)
(* and is not called if the slot is empty; every row the callback returned *)
(* is drawn, in order, after the checkbox row; the row contributes the AND *)
(* of their outcomes, true when there are none.                            *)
(***************************************************************************)
C21_CallbackOnceWhenSome ==
    Done =>
        /\ SlotAfterToggle = None => CallbackCalls = {}
        /\ SlotAfterToggle # None =>
              /\ Cardinality(CallbackCalls) = 1
              /\ \A c \in CallbackCalls : log[c].val = SlotAfterToggle[1] /\ ToggleRow < c
        /\ { log[n].path : n \in NestedDraws(OptionalDraw) }
              = IF SlotAfterToggle = None THEN {}
                ELSE { << 1, j >> : j \in 1..Len(CbFields(app.property_cb)) }
        /\ \A n, m \in NestedDraws(OptionalDraw) :
              /\ ToggleRow < n /\ n < OptionalDraw
              /\ log[n].path = log[m].path => n = m
              /\ n < m => log[n].path[2] < log[m].path[2]
        /\ log[OptionalDraw].ok = (\A n \in NestedDraws(OptionalDraw) : log[n].ok)
        /\ out[1].validation_result = log[OptionalDraw].ok

(* the checkbox of an empty slot is ticked: the callback gets the default
   and one of its two rows fails *)
C21_Witness ==
    /\ Done
    /\ app.prev = None
    /\ app.clicked
    /\ Cardinality(CallbackCalls) = 1
    /\ \A c \in CallbackCalls : log[c].val = app.default
    /\ Cardinality(NestedDraws(OptionalDraw)) = 2
    /\ ~log[OptionalDraw].ok

(***************************************************************************)
(* C22.  One frame of an enum property: the value once the selector has    *)
(* been applied, and the row's own events.                                 *)
(***************************************************************************)
ValueAfterSelector ==
    IF app.clicked \in 1..Len(EnumArms) /\ app.prev.variant # EnumArms[app.clicked].variant
    THEN EnumArms[app.clicked].default
    ELSE app.prev

SelectorRow == CHOOSE k \in Events("row") : log[k].path = << 1 >>
EnumDraw == CHOOSE k \in TopDraws : log[k].path = << 1 >>

(***************************************************************************)
(* C22: when an enum property is drawn, the nested rows are those of the   *)
(* variant that is active once the selector has been applied (Something    *)
(* shows its payload under the nonzero rule, the default's payload when it *)
(* was chosen in this frame; Nothing shows no row), drawn after the        *)
(* selector row; the row contributes the AND of their outcomes, and a      *)
(* value that matches no listed variant shows no row and contributes true. *)
(***************************************************************************)
C22_RowsOfActiveVariant ==
    Done =>
        /\ { log[n].path : n \in NestedDraws(EnumDraw) }
              = IF ValueAfterSelector.variant = "Something" THEN { << 1, 1 >> } ELSE {}
        /\ \A n, m \in NestedDraws(EnumDraw) :
              /\ SelectorRow < n /\ n < EnumDraw
              /\ n = m
              /\ log[n].vr = IF ValueAfterSelector.payload = 0 THEN "OutOfRange" ELSE "Ok"
        /\ log[EnumDraw].ok = (\A n \in NestedDraws(EnumDraw) : log[n].ok)
        /\ out[1].validation_result = log[EnumDraw].ok
        /\ ValueAfterSelector.variant \notin { EnumArms[k].variant : k \in DOMAIN EnumArms }
              => NestedDraws(EnumDraw) = {} /\ log[EnumDraw].ok

(* Something is chosen in a frame that began with Nothing: the row of the
   default's payload is drawn in that frame *)
C22_Witness ==
    /\ Done
    /\ app.prev.variant = "Nothing"
    /\ app.clicked = 2
    /\ \E n \in NestedDraws(EnumDraw) : log[n].path = << 1, 1 >> /\ log[n].vr = "Ok"

(***************************************************************************)
(* C23.  The rectangle the rows occupied: from the top left corner of the  *)
(* rectangle they were rendered into, as large as they measure.            *)
(***************************************************************************)
RenderedInto == out[1].inner_rect
Occupied ==
    Rect(RenderedInto.min_x, RenderedInto.min_x + out[1].env.content.w,
         RenderedInto.min_y, RenderedInto.min_y + out[1].env.content.h)
Final == out[1].final_rect

(***************************************************************************)
(* C23: with an outer border, the rows are rendered into the chosen        *)
(* rectangle shrunk by the inset on every side, and the final rectangle,   *)
(* which is the one stroked, the one the cursor advances past, and the one *)
(* whose width is stored and compared for the discard, is the occupied     *)
(* rectangle expanded by the same inset on every side; without a border    *)
(* the chosen rectangle is used as it is, nothing is stroked and the       *)
(* occupied rectangle is the final one.                                    *)
(***************************************************************************)
C23_BorderInsetAndBack ==
    Done =>
        /\ out[1].self.group_all =>
              /\ RenderedInto = Rect(Chosen.min_x + BorderInset, Chosen.max_x - BorderInset,
                                     Chosen.min_y + BorderInset, Chosen.max_y - BorderInset)
              /\ Final = Rect(Occupied.min_x - BorderInset, Occupied.max_x + BorderInset,
                              Occupied.min_y - BorderInset, Occupied.max_y + BorderInset)
              /\ out[1].stroke = Some(Final)
        /\ ~out[1].self.group_all =>
              /\ RenderedInto = Chosen
              /\ Final = Occupied
              /\ out[1].stroke = None
        /\ out[1].cursor = Final
        /\ Stored[1].last_width = width(Final)
        /\ out[1].discard = (unwrap_or_default(out[1].loaded).last_width # width(Final))

(* rows 40 wide under a border: 50 is stored *)
C23_Witness ==
    /\ Done
    /\ out[1].self.group_all
    /\ out[1].env.content.w = 40
    /\ width(Final) = 50
    /\ Stored[1].last_width = 50

(***************************************************************************)
(* C24.  The grids of one show: an event lies in a grid when a grid.show   *)
(* has been entered before it and not left since.                          *)
(***************************************************************************)
GridsShown == Events("grid_show")
InGrid(n) ==
    \E g \in GridsShown :
        /\ g < n
        /\ \A e \in Events("grid_end") : ~(g < e /\ e < n)

(* the grid the event at n lies in *)
GridOf(n) == CHOOSE g \in GridsShown : g < n /\ \A h \in GridsShown : h < n => h <= g

RowEvents == Events("headline") \cup Events("row") \cup Events("draw")

(***************************************************************************)
(* C24 as stated: a Heading row is drawn outside of any grid, and the      *)
(* Property rows on either side of it are in different grid blocks, while  *)
(* Property rows with no heading between them share one.                   *)
(***************************************************************************)
C24_HeadingBetweenGrids ==
    Done =>
        /\ \A h \in Events("headline") : ~InGrid(h)
        /\ \A k1, k2 \in TopDraws :
              k1 < k2 =>
                 (GridOf(k1) # GridOf(k2)) = (\E h \in Events("headline") : k1 < h /\ h < k2)

(***************************************************************************)
(* C24, amended: inner_ui shows one grid per show call, entered before the *)
(* first row and left after the last.  Every row is rendered inside it: a  *)
(* Heading row takes a grid row of its own (an allocation and end_row, its *)
(* text painted over it) and neither closes the grid nor opens another, so *)
(* the Property rows before and after a heading, like consecutive ones,    *)
(* share the one grid.                                                     *)
(***************************************************************************)
C24_OneGridHoldsEveryRow ==
    Done =>
        /\ Cardinality(GridsShown) = 1
        /\ Cardinality(Events("grid_end")) = 1
        /\ \A n \in RowEvents : InGrid(n) /\ \A e \in Events("grid_end") : n < e

(* a property, a heading, a property: all in the one grid *)
C24_Witness ==
    /\ Done
    /\ \E k1, k2 \in TopDraws, h \in Events("headline") :
          /\ k1 < h /\ h < k2
          /\ InGrid(k1) /\ InGrid(h) /\ InGrid(k2)
          /\ GridOf(k1) = GridOf(k2)

(***************************************************************************)
(* C25.  The events that stand for a grid row of a property: the draw of a *)
(* row drawn by the default draw function, the checkbox or selector row of *)
(* an optional or enum property.                                           *)
(***************************************************************************)
GridRows ==
    Events("row") \cup
    { k \in Events("draw") : log[k].kind \in {"widget", "empty_string_is_none"} }

(* the name and description a row was built with: a top-level row as it
   was added, a nested row as its parent's callback or variant names it *)
NameOf(n) ==
    IF Len(log[n].path) = 1 THEN Label(out[1].self.entries[log[n].path[1]].p.name)
    ELSE IF out[1].self.entries[log[n].path[1]].p.draw_fn.kind = "enum" THEN "payload"
    ELSE "member"

DescriptionOf(n) ==
    IF Len(log[n].path) = 1 THEN Label(out[1].self.entries[log[n].path[1]].p.description)
    ELSE ""

(***************************************************************************)
(* C25: the grid has 2 columns when show_descriptions is false and 3 when  *)
(* it is true, and every row drawn by the default draw function, by        *)
(* new_optional or by the enum macro, top-level or nested, puts that many  *)
(* cells into its grid row: the name (blank without one), the widget, and  *)
(* only when the column is shown the description (blank without one).      *)
(***************************************************************************)
C25_CellsMatchColumns ==
    Done =>
        /\ out[1].grid.num_columns = IF out[1].self.show_descriptions THEN 3 ELSE 2
        /\ \A n \in GridRows :
              /\ Len(log[n].labels) = out[1].grid.num_columns
              /\ log[n].cells = out[1].grid.num_columns
              /\ log[n].labels[1] = NameOf(n)
              /\ log[n].labels[2] = "widget"
              /\ out[1].self.show_descriptions => log[n].labels[3] = DescriptionOf(n)

(* three columns: a row with its description, a nameless row and a nested
   row with blank cells *)
C25_Witness ==
    /\ Done
    /\ out[1].grid.num_columns = 3
    /\ \E n \in GridRows : log[n].labels = << "n", "widget", "d" >>
    /\ \E n \in GridRows : log[n].labels = << "", "widget", "" >>
    /\ \E n \in GridRows : Len(log[n].path) = 2 /\ log[n].labels[3] = ""

(***************************************************************************)
(* C26.  The layout show was handed, and the one show_outer ran under.     *)
(***************************************************************************)
Ambient == out[1].env.layout

(***************************************************************************)
(* C26: for every ambient layout of the Ui passed to show, of any main     *)
(* direction and any alignment, the assertion in show_outer that the       *)
(* layout is top-down holds: show_outer runs under a top-down layout whose *)
(* alignment across is the ambient horizontal alignment (the alignment     *)
(* along a horizontal layout, across a vertical one).                      *)
(***************************************************************************)
C26_AssertionHolds ==
    Done =>
        /\ out[1].assert_top_down
        /\ out[1].main_dir = "TopDown"
        /\ out[1].cross_align =
              IF Ambient.main_dir \in {"LeftToRight", "RightToLeft"}
              THEN Ambient.main_align ELSE Ambient.cross_align

(* a right-to-left ambient layout, centred along and end-aligned across *)
C26_Witness ==
    /\ Done
    /\ Ambient = [main_dir |-> "RightToLeft", main_align |-> "Center", cross_align |-> "Max"]
    /\ out[1].assert_top_down
    /\ out[1].cross_align = "Center"

(***************************************************************************)
(* C27.  What an editor's own shows alone leave stored under its           *)
(* identifier: nothing before its first show, afterwards the width of the  *)
(* final rectangle of its last show.                                       *)
(***************************************************************************)
OwnHistory(i) ==
    IF shown_width[i] = None THEN None
    ELSE Some([first_pass |-> FALSE, last_width |-> shown_width[i][1]])

ShowStep == pc = "build" /\ pc' = "done"

(***************************************************************************)
(* C27: showing an editor reads and writes only the state stored under    *)
(* its own identifier.  With two identifiers shown in any order over any   *)
(* number of frames, what is stored under each is what its own shows left, *)
(* and a show loads that, requests the discard by comparing with that, and *)
(* leaves what is stored under the other identifier as it was.             *)
(***************************************************************************)
C27_OnlyOwnState ==
    /\ [](\A i \in Ids : data[i] = OwnHistory(i))
    /\ [][ShowStep =>
             /\ \A i \in Ids \ {id} : data'[i] = data[i]
             /\ out'[1].loaded = OwnHistory(id)
             /\ out'[1].discard =
                   (unwrap_or_default(OwnHistory(id)).last_width # width(out'[1].final_rect))
             /\ data'[id] # None
             /\ data'[id][1].last_width = width(out'[1].final_rect)]_vars

(* the second editor is shown for the first time after the first one has
   stored a width: it loads nothing, and the first one's width stays *)
C27_Witness ==
    /\ Done
    /\ id = "e2"
    /\ out[1].loaded = None
    /\ data["e1"] # None
    /\ data["e2"] # None
    /\ data["e1"][1].last_width # data["e2"][1].last_width

C29_WriteBackSucceeds ==
    app.written # None => ~app.written[1].panic

====
